---- MODULE Spec2Model ----
(***************************************************************************)
(* A model of the Power Grid game engine (game_engine.py), of the resource *)
(* market (create_use_resources.py) and of the player ledger               *)
(* (Player_class.py).  The engine is a sequential program: an action of    *)
(* this model is one strategy consultation together with everything the    *)
(* engine does until it next waits for a strategy.                         *)
(***************************************************************************)
EXTENDS Integers, Sequences, FiniteSets, TLC

VARIABLES
    money, cards, generators, inventory,
    current_market, future_market, deck, resources, player_order,
    step, round_num, phase, step_3_triggered, game_over, winner,
    city_occupancy, board_graph,
    auction_active, auction_plant, auction_current_bid,
    auction_current_winner, auction_active_bidders, auction_starter,
    pc, frame, last

vars == << money, cards, generators, inventory,
           current_market, future_market, deck, resources, player_order,
           step, round_num, phase, step_3_triggered, game_over, winner,
           city_occupancy, board_graph,
           auction_active, auction_plant, auction_current_bid,
           auction_current_winner, auction_active_bidders, auction_starter,
           pc, frame, last >>

None == 0 - 1

Min2(a, b) == IF a <= b THEN a ELSE b

Max2(a, b) == IF a >= b THEN a ELSE b

RECURSIVE SetMax(_)
SetMax(xs) ==
    LET x == CHOOSE y \in xs : TRUE
    IN  IF xs = {x} THEN x ELSE Max2(x, SetMax(xs \ {x}))

RECURSIVE SeqSum(_)
SeqSum(s) == IF s = << >> THEN 0 ELSE Head(s) + SeqSum(Tail(s))

Range(s) == { s[i] : i \in DOMAIN s }

(***************************************************************************)
(* Resource market: create_use_resources.py                                *)
(* A pool is [total_supply, capacity_list]; capacity_list is the ladder, a *)
(* sequence of bins [price, slots] whose slots hold 1 (a unit) or 0.       *)
(***************************************************************************)

\* The slots of the ladder in the order "for bin in capacity_list: for res in
\* bin[1]" visits them, each as <<bin index, slot index>>.
RECURSIVE AscendingCells(_, _, _)
AscendingCells(cl, i, j) ==
    IF i > Len(cl) THEN << >>
    ELSE IF j > Len(cl[i].slots) THEN AscendingCells(cl, i + 1, 1)
    ELSE << <<i, j>> >> \o AscendingCells(cl, i, j + 1)

\* The slots in the order resupply's two range(..., -1) loops visit them: bins
\* from the last down to the second (range(len-1, 0, -1) stops before index
\* 0), the slots of a bin from the last down to the first.
RECURSIVE ResupplyCells(_, _, _)
ResupplyCells(cl, i, j) ==
    IF i < 2 THEN << >>
    ELSE IF j < 1 THEN
        IF i - 1 < 2 THEN << >>
        ELSE ResupplyCells(cl, i - 1, Len(cl[i - 1].slots))
    ELSE << <<i, j>> >> \o ResupplyCells(cl, i, j - 1)

SlotAt(cl, c) == cl[c[1]].slots[c[2]]

PriceAt(cl, c) == cl[c[1]].price

SetSlot(cl, c, v) == [cl EXCEPT ![c[1]].slots[c[2]] = v]

\* Resource.poss_purchases: {count: cumulative price} over the occupied slots
\* in ladder order.
RECURSIVE poss_scan(_, _, _, _, _)
poss_scan(cl, cells, bin_count, bin_cost, poss_pur_dict) ==
    IF cells = << >> THEN poss_pur_dict
    ELSE IF SlotAt(cl, Head(cells)) = 1
         THEN poss_scan(cl, Tail(cells), bin_count + 1,
                        bin_cost + PriceAt(cl, Head(cells)),
                        poss_pur_dict @@
                            (bin_count :> bin_cost + PriceAt(cl, Head(cells))))
         ELSE poss_scan(cl, Tail(cells), bin_count, bin_cost, poss_pur_dict)

\* A faulty variant of poss_purchases: the running total bin_cost is not carried over,
\* so every count is priced at the price of its last unit.
RECURSIVE poss_scan_last_price(_, _, _, _)
poss_scan_last_price(cl, cells, bin_count, poss_pur_dict) ==
    IF cells = << >> THEN poss_pur_dict
    ELSE IF SlotAt(cl, Head(cells)) = 1
         THEN poss_scan_last_price(cl, Tail(cells), bin_count + 1,
                        poss_pur_dict @@ (bin_count :> PriceAt(cl, Head(cells))))
         ELSE poss_scan_last_price(cl, Tail(cells), bin_count, poss_pur_dict)

poss_purchases_last_price(pool) ==
    poss_scan_last_price(pool.capacity_list,
                         AscendingCells(pool.capacity_list, 1, 1), 1, << >>)

poss_purchases(pool) ==
    poss_scan(pool.capacity_list, AscendingCells(pool.capacity_list, 1, 1),
              1, 0, << >>)

\* The loop of buy_resource: empties the first update_res occupied slots.
RECURSIVE buy_scan(_, _, _)
buy_scan(cl, cells, update_res) ==
    IF cells = << >> THEN cl
    ELSE IF SlotAt(cl, Head(cells)) = 1 /\ update_res > 0
         THEN buy_scan(SetSlot(cl, Head(cells), 0), Tail(cells), update_res - 1)
         ELSE buy_scan(cl, Tail(cells), update_res)

NotEnough == [ok |-> FALSE, num |-> 0, cost |-> 0]

\* Resource.buy_resource: [pool, result]; result is (num_res, price) or the
\* string 'not enough resources' (NotEnough).
buy_resource(pool, num_res) ==
    LET check_pur == poss_purchases(pool) IN
    IF num_res \in DOMAIN check_pur
    THEN [pool   |-> [pool EXCEPT !.capacity_list =
                         buy_scan(pool.capacity_list,
                                  AscendingCells(pool.capacity_list, 1, 1),
                                  num_res)],
          result |-> [ok |-> TRUE, num |-> num_res, cost |-> check_pur[num_res]]]
    ELSE [pool |-> pool, result |-> NotEnough]

\* Resource.use_resource
use_resource(pool, num_units) ==
    [pool EXCEPT !.total_supply = pool.total_supply + num_units]

\* The loop of resupply: fills empty slots while units_place > 0.
RECURSIVE resupply_scan(_, _, _)
resupply_scan(cl, cells, units_place) ==
    IF cells = << >> THEN cl
    ELSE IF SlotAt(cl, Head(cells)) = 0 /\ units_place > 0
         THEN resupply_scan(SetSlot(cl, Head(cells), 1), Tail(cells),
                            units_place - 1)
         ELSE resupply_scan(cl, Tail(cells), units_place)

\* Resource.resupply: total_supply is read, never written.
resupply(pool, resupply_units) ==
    LET units_place == Min2(resupply_units, pool.total_supply)
        cl == pool.capacity_list
    IN  [pool EXCEPT !.capacity_list =
            resupply_scan(cl, ResupplyCells(cl, Len(cl), Len(cl[Len(cl)].slots)),
                          units_place)]

\* Resource.initialize_supply: fills bins start_allocation[0]..[1] and takes
\* the units placed from total_supply.
initialize_supply(total_supply, start_allocation, bin_sizes) ==
    LET cl == [i \in 1..Len(bin_sizes) |->
                 [price |-> i,
                  slots |-> [j \in 1..bin_sizes[i] |->
                               IF i >= start_allocation[1] /\ i <= start_allocation[2]
                               THEN 1 ELSE 0]]]
        unit_count == SeqSum([i \in 1..Len(bin_sizes) |->
                               SeqSum(cl[i].slots)])
    IN  [total_supply |-> total_supply - unit_count, capacity_list |-> cl]

OccupiedCells(cl) ==
    { c \in Range(AscendingCells(cl, 1, 1)) : SlotAt(cl, c) = 1 }

EmptyCells(cl) ==
    { c \in Range(AscendingCells(cl, 1, 1)) : SlotAt(cl, c) = 0 }

occupied_slots(pool) == Cardinality(OccupiedCells(pool.capacity_list))

RECURSIVE SetSumPrice(_, _)
SetSumPrice(cl, cs) ==
    IF cs = {} THEN 0
    ELSE LET c == CHOOSE x \in cs : TRUE
         IN  PriceAt(cl, c) + SetSumPrice(cl, cs \ {c})


(***************************************************************************)
(* Cards, players and the board: card.py, Player_class.py, the test        *)
(* fixtures of test_game_engine.py.  A card is identified by its cost.     *)
(***************************************************************************)

\* The cities of the board graph.
Cities == {"A", "B", "C", "D", "E"}

NumPlayers == 2

Players == 0 .. (NumPlayers - 1)

StartMoney == 50

MaxRetries == 10

StageThree == 99

ResourceTypes == {"coal", "oil", "gas", "uranium"}

\* Card(props): cost -> resource, resource_cost, cities.  Plants 3..16 are the
\* sample cards of the tests; plant 21 is the uranium plant of card_class.py,
\* whose resource is named 'nuclear'.
CardTable ==
    (3  :> [resource |-> "oil",     resource_cost |-> 2, cities |-> 1]) @@
    (4  :> [resource |-> "coal",    resource_cost |-> 2, cities |-> 1]) @@
    (5  :> [resource |-> "oil&gas", resource_cost |-> 2, cities |-> 1]) @@
    (6  :> [resource |-> "gas",     resource_cost |-> 1, cities |-> 1]) @@
    (7  :> [resource |-> "oil",     resource_cost |-> 3, cities |-> 2]) @@
    (8  :> [resource |-> "coal",    resource_cost |-> 3, cities |-> 2]) @@
    (9  :> [resource |-> "oil",     resource_cost |-> 1, cities |-> 1]) @@
    (10 :> [resource |-> "coal",    resource_cost |-> 2, cities |-> 2]) @@
    (11 :> [resource |-> "uranium", resource_cost |-> 1, cities |-> 2]) @@
    (12 :> [resource |-> "oil&gas", resource_cost |-> 2, cities |-> 2]) @@
    (13 :> [resource |-> "green",   resource_cost |-> 0, cities |-> 1]) @@
    (14 :> [resource |-> "gas",     resource_cost |-> 2, cities |-> 2]) @@
    (15 :> [resource |-> "coal",    resource_cost |-> 2, cities |-> 3]) @@
    (16 :> [resource |-> "oil",     resource_cost |-> 2, cities |-> 3]) @@
    (21 :> [resource |-> "nuclear", resource_cost |-> 1, cities |-> 3]) @@
    (StageThree :> [resource |-> "stage three", resource_cost |-> 0, cities |-> 0])

\* list.remove(x): drops the first occurrence of x.
\* What the players hold and what the markets and the deck hold.
Holdings(s) ==
    [ money |-> s.money, cards |-> s.cards, inventory |-> s.inventory,
      current_market |-> s.current_market, future_market |-> s.future_market,
      deck |-> s.deck ]

RECURSIVE Remove(_, _)
Remove(seq, x) ==
    IF seq = << >> THEN << >>
    ELSE IF Head(seq) = x THEN Tail(seq)
    ELSE << Head(seq) >> \o Remove(Tail(seq), x)

\* sorted(..., key=lambda c: c.cost) / list.sort(key=cost): stable insertion.
RECURSIVE InsertByCost(_, _)
InsertByCost(sorted, c) ==
    IF sorted = << >> THEN << c >>
    ELSE IF c < Head(sorted) THEN << c >> \o sorted
    ELSE << Head(sorted) >> \o InsertByCost(Tail(sorted), c)

RECURSIVE SortByCost(_)
SortByCost(seq) ==
    IF seq = << >> THEN << >>
    ELSE InsertByCost(SortByCost(SubSeq(seq, 1, Len(seq) - 1)), seq[Len(seq)])

\* min(cards, key=cost) and max(cards, key=cost) of a non-empty list.
MinCost(seq) == CHOOSE c \in Range(seq) : \A d \in Range(seq) : c <= d

MaxCost(seq) == CHOOSE c \in Range(seq) : \A d \in Range(seq) : c >= d

Reverse(seq) == [i \in 1..Len(seq) |-> seq[Len(seq) + 1 - i]]

\* A faulty variant of Player.update_money: "=" written for "+=".
update_money_assign(m, amount) ==
    IF m + amount < 0 THEN m ELSE amount

\* Player.update_money: the new balance; a change that would make the balance
\* negative is refused ("not enough money") and the balance kept.
update_money(m, amount) ==
    IF m + amount < 0 THEN m ELSE m + amount

(***************************************************************************)
(* The engine state as one record, so that the engine's methods are        *)
(* operators from state to state.                                          *)
(***************************************************************************)

S == [ money |-> money, cards |-> cards, generators |-> generators,
       inventory |-> inventory,
       current_market |-> current_market, future_market |-> future_market,
       deck |-> deck, resources |-> resources, player_order |-> player_order,
       step |-> step, round_num |-> round_num, phase |-> phase,
       step_3_triggered |-> step_3_triggered, game_over |-> game_over,
       winner |-> winner, city_occupancy |-> city_occupancy,
       board_graph |-> board_graph,
       auction_active |-> auction_active, auction_plant |-> auction_plant,
       auction_current_bid |-> auction_current_bid,
       auction_current_winner |-> auction_current_winner,
       auction_active_bidders |-> auction_active_bidders,
       auction_starter |-> auction_starter,
       pc |-> pc, frame |-> frame, last |-> last ]

Becomes(t) ==
    /\ money' = t.money
    /\ cards' = t.cards
    /\ generators' = t.generators
    /\ inventory' = t.inventory
    /\ current_market' = t.current_market
    /\ future_market' = t.future_market
    /\ deck' = t.deck
    /\ resources' = t.resources
    /\ player_order' = t.player_order
    /\ step' = t.step
    /\ round_num' = t.round_num
    /\ phase' = t.phase
    /\ step_3_triggered' = t.step_3_triggered
    /\ game_over' = t.game_over
    /\ winner' = t.winner
    /\ city_occupancy' = t.city_occupancy
    /\ board_graph' = t.board_graph
    /\ auction_active' = t.auction_active
    /\ auction_plant' = t.auction_plant
    /\ auction_current_bid' = t.auction_current_bid
    /\ auction_current_winner' = t.auction_current_winner
    /\ auction_active_bidders' = t.auction_active_bidders
    /\ auction_starter' = t.auction_starter
    /\ pc' = t.pc
    /\ frame' = t.frame
    /\ last' = t.last

(***************************************************************************)
(* Plant market and deck: game_engine.py lines 695-760                     *)
(***************************************************************************)

\* A faulty variant of draw_next_plant: the top card, whatever it is.
draw_next_plant_plain(s) ==
    IF s.deck = << >> THEN [s |-> s, plant |-> None]
    ELSE [s |-> [s EXCEPT !.deck = Tail(s.deck)], plant |-> Head(s.deck)]

\* GameEngine.draw_next_plant: [s, plant]; plant is None when nothing is drawn.
draw_next_plant(s) ==
    IF s.deck = << >> THEN [s |-> s, plant |-> None]
    ELSE LET plant == Head(s.deck)
             rest  == Tail(s.deck)
         IN  IF CardTable[plant].resource = "stage three"
             THEN IF rest # << >>
                  THEN [s |-> [s EXCEPT !.step_3_triggered = TRUE,
                                        !.deck = Tail(rest)],
                        plant |-> Head(rest)]
                  ELSE [s |-> [s EXCEPT !.step_3_triggered = TRUE,
                                        !.deck = rest],
                        plant |-> None]
             ELSE [s |-> [s EXCEPT !.deck = rest], plant |-> plant]

\* "while len(all_plants) < size: draw; append or break": [s, all_plants].
RECURSIVE fill_from_deck(_, _, _)
fill_from_deck(s, all_plants, size) ==
    IF Len(all_plants) >= size THEN [s |-> s, all_plants |-> all_plants]
    ELSE LET d == draw_next_plant(s)
         IN  IF d.plant # None
             THEN fill_from_deck(d.s, Append(all_plants, d.plant), size)
             ELSE [s |-> d.s, all_plants |-> all_plants]

\* "while len(future_market) > 5: deck.append(future_market.pop())".
RECURSIVE trim_future(_)
trim_future(s) ==
    IF Len(s.future_market) > 5
    THEN trim_future([s EXCEPT
            !.deck = Append(s.deck, s.future_market[Len(s.future_market)]),
            !.future_market = SubSeq(s.future_market, 1,
                                     Len(s.future_market) - 1)])
    ELSE s

\* A faulty variant of update_market_after_purchase: the Step 1 and 2 layout
\* in every step.
update_market_always_split(s) ==
    LET f   == fill_from_deck(s, s.current_market \o s.future_market, 9)
        all == SortByCost(f.all_plants)
    IN  trim_future([f.s EXCEPT
            !.current_market = SubSeq(all, 1, Min2(4, Len(all))),
            !.future_market = SubSeq(all, 5, Len(all))])

\* GameEngine.update_market_after_purchase
update_market_after_purchase(s) ==
    IF s.step = 3
    THEN LET f   == fill_from_deck(s, s.current_market \o s.future_market, 6)
             all == SortByCost(f.all_plants)
         IN  IF Len(all) > 6
             THEN [f.s EXCEPT !.deck = f.s.deck \o SubSeq(all, 7, Len(all)),
                              !.current_market = SubSeq(all, 1, 6),
                              !.future_market = << >>]
             ELSE [f.s EXCEPT !.current_market = all,
                              !.future_market = << >>]
    ELSE LET f   == fill_from_deck(s, s.current_market \o s.future_market, 9)
             all == SortByCost(f.all_plants)
         IN  trim_future([f.s EXCEPT
                 !.current_market = SubSeq(all, 1, Min2(4, Len(all))),
                 !.future_market = SubSeq(all, 5, Len(all))])


(***************************************************************************)
(* Phase 2, the auction: game_engine.py lines 240-693                      *)
(***************************************************************************)

\* The locals of the method the engine is in.
Frame0 ==
    [ players_who_bought |-> {}, players_who_passed |-> {},
      is_first_round |-> FALSE, eligible_players |-> << >>,
      player_idx |-> None, attempt |-> 0,
      plant |-> None, starter_idx |-> None, active_bidders |-> << >>,
      queue |-> << >>, made_bid |-> FALSE,
      current_bid |-> None, current_winner |-> None, current_discard |-> None,
      order |-> << >>, consults |-> 0, accepted |-> << >>,
      before |-> << >> ]

\* The log of the last step: op names the operation, ev lists what the engine
\* did during the step, in order.
Last0 == [ op |-> "none", ev |-> << >> ]

Log(s, e) == [s EXCEPT !.last.ev = Append(@, e)]

\* A strategy's answer: a PlayerAction; type "raise" is a strategy call that
\* raised, "not_action" an answer that is no PlayerAction.
Act(type, plant, bid, discard) ==
    [ type |-> type, plant |-> plant, bid |-> bid, discard |-> discard ]

\* GameEngine.remove_excess_resources: the player's inventory cut to the
\* capacities of the given cards.
remove_excess_resources(inv, hand) ==
    LET cap(rt) ==
            SeqSum([i \in 1..Len(hand) |->
                LET r == CardTable[hand[i]].resource
                    c == CardTable[hand[i]].resource_cost * 2
                IN  IF r = "green" THEN 0
                    ELSE IF r = "nuclear"
                         THEN (IF rt = "uranium" THEN c ELSE 0)
                    ELSE IF r = "oil&gas"
                         THEN (IF rt \in {"oil", "gas"} THEN c ELSE 0)
                    ELSE IF r \in {"coal", "oil", "gas"}
                         THEN (IF rt = r THEN c ELSE 0)
                    ELSE 0])
    IN  [rt \in ResourceTypes |-> IF inv[rt] > cap(rt) THEN cap(rt) ELSE inv[rt]]

\* validate_auction_opening without its checks of the bid amount.
validate_auction_opening_any_bid(s, player_idx, action) ==
    IF action.type = "not_action" THEN FALSE
    ELSE IF action.type = "auction_pass" THEN TRUE
    ELSE IF action.type # "auction_open" THEN FALSE
    ELSE IF action.plant = None THEN FALSE
    ELSE IF action.plant \notin Range(s.current_market) THEN FALSE
    ELSE IF action.bid = None THEN FALSE
    ELSE IF Len(s.cards[player_idx]) >= 3
         THEN IF action.plant <= MinCost(s.cards[player_idx]) THEN FALSE
              ELSE IF action.discard = None THEN FALSE
              ELSE IF action.discard \notin Range(s.cards[player_idx]) THEN FALSE
              ELSE TRUE
    ELSE TRUE

\* GameEngine.validate_auction_opening: whether the action is accepted.
validate_auction_opening(s, player_idx, action) ==
    IF action.type = "not_action" THEN FALSE
    ELSE IF action.type = "auction_pass" THEN TRUE
    ELSE IF action.type # "auction_open" THEN FALSE
    ELSE IF action.plant = None THEN FALSE
    ELSE IF action.plant \notin Range(s.current_market) THEN FALSE
    ELSE IF action.bid = None THEN FALSE
    ELSE IF action.bid < action.plant THEN FALSE
    ELSE IF action.bid > s.money[player_idx] THEN FALSE
    ELSE IF Len(s.cards[player_idx]) >= 3
         THEN IF action.plant <= MinCost(s.cards[player_idx]) THEN FALSE
              ELSE IF action.discard = None THEN FALSE
              ELSE IF action.discard \notin Range(s.cards[player_idx]) THEN FALSE
              ELSE TRUE
    ELSE TRUE

\* ActionType: the tags a PlayerAction can carry.
ActionTypes ==
    { "auction_pass", "auction_open", "auction_bid", "auction_bid_pass",
      "resource_purchase", "city_build", "power_cities" }

\* validate_auction_bid without its check of the action type.
validate_auction_bid_any_tag(s, player_idx, action, min_bid) ==
    IF action.type = "not_action" THEN FALSE
    ELSE IF action.type = "auction_bid_pass" THEN TRUE
    ELSE IF action.bid = None THEN FALSE
    ELSE IF action.bid < min_bid THEN FALSE
    ELSE IF action.bid > s.money[player_idx] THEN FALSE
    ELSE IF Len(s.cards[player_idx]) >= 3
         THEN IF action.discard = None THEN FALSE
              ELSE IF action.discard \notin Range(s.cards[player_idx]) THEN FALSE
              ELSE TRUE
    ELSE TRUE

\* validate_auction_bid taking the current bid for the minimum bid: a bid that
\* does not raise is accepted.
validate_auction_bid_no_raise(s, player_idx, action, min_bid) ==
    IF action.type = "not_action" THEN FALSE
    ELSE IF action.type = "auction_bid_pass" THEN TRUE
    ELSE IF action.type # "auction_bid" THEN FALSE
    ELSE IF action.bid = None THEN FALSE
    ELSE IF action.bid < min_bid - 1 THEN FALSE
    ELSE IF action.bid > s.money[player_idx] THEN FALSE
    ELSE IF Len(s.cards[player_idx]) >= 3
         THEN IF action.discard = None THEN FALSE
              ELSE IF action.discard \notin Range(s.cards[player_idx]) THEN FALSE
              ELSE TRUE
    ELSE TRUE

\* validate_auction_bid without its discard requirement.
validate_auction_bid_any_discard(s, player_idx, action, min_bid) ==
    IF action.type = "not_action" THEN FALSE
    ELSE IF action.type = "auction_bid_pass" THEN TRUE
    ELSE IF action.type # "auction_bid" THEN FALSE
    ELSE IF action.bid = None THEN FALSE
    ELSE IF action.bid < min_bid THEN FALSE
    ELSE IF action.bid > s.money[player_idx] THEN FALSE
    ELSE TRUE

\* GameEngine.validate_auction_bid: whether the action is accepted.
validate_auction_bid(s, player_idx, action, min_bid) ==
    IF action.type = "not_action" THEN FALSE
    ELSE IF action.type = "auction_bid_pass" THEN TRUE
    ELSE IF action.type # "auction_bid" THEN FALSE
    ELSE IF action.bid = None THEN FALSE
    ELSE IF action.bid < min_bid THEN FALSE
    ELSE IF action.bid > s.money[player_idx] THEN FALSE
    ELSE IF Len(s.cards[player_idx]) >= 3
         THEN IF action.discard = None THEN FALSE
              ELSE IF action.discard \notin Range(s.cards[player_idx]) THEN FALSE
              ELSE TRUE
    ELSE TRUE

\* execute_plant_purchase without the removal of the plant from the market.
execute_plant_purchase_plant_stays(s, player_idx, plant, bid_amount, discard_card) ==
    LET hand1 == Append(s.cards[player_idx], plant)
        paid  == update_money(s.money[player_idx], 0 - bid_amount)
        drop  == discard_card # None /\ discard_card \in Range(hand1)
        hand2 == IF drop THEN Remove(hand1, discard_card) ELSE hand1
        inv2  == IF drop
                 THEN remove_excess_resources(s.inventory[player_idx], hand2)
                 ELSE s.inventory[player_idx]
        s1 == [s EXCEPT !.cards[player_idx] = hand2,
                        !.money[player_idx] = paid,
                        !.inventory[player_idx] = inv2]
    IN  update_market_after_purchase(s1)

\* GameEngine.execute_plant_purchase
execute_plant_purchase(s, player_idx, plant, bid_amount, discard_card) ==
    LET hand1 == Append(s.cards[player_idx], plant)
        paid  == update_money(s.money[player_idx], 0 - bid_amount)
        drop  == discard_card # None /\ discard_card \in Range(hand1)
        hand2 == IF drop THEN Remove(hand1, discard_card) ELSE hand1
        inv2  == IF drop
                 THEN remove_excess_resources(s.inventory[player_idx], hand2)
                 ELSE s.inventory[player_idx]
        s1 == [s EXCEPT !.cards[player_idx] = hand2,
                        !.money[player_idx] = paid,
                        !.inventory[player_idx] = inv2,
                        !.current_market =
                            IF plant \in Range(s.current_market)
                            THEN Remove(s.current_market, plant)
                            ELSE s.current_market]
    IN  update_market_after_purchase(s1)

\* The first statements of phase_3_buy_resources: the buy order, then the wait
\* for the first player's choose_resources.
begin_phase_3(s) ==
    [s EXCEPT !.pc = "buy_resources",
              !.frame = [Frame0 EXCEPT !.order = Reverse(s.player_order)]]

\* The end of phase_2_auction without lines 304-310: the cheapest plant stays.
end_phase_2_keeps_cheapest(s) ==
    begin_phase_3(
      Log([s EXCEPT !.phase = "buy_resources"],
          [op |-> "phase_2_end", first_round |-> s.frame.is_first_round,
           bought |-> s.frame.players_who_bought,
           passed |-> s.frame.players_who_passed,
           market_empty |-> (s.current_market = << >>)]))

\* The end of phase_2_auction (lines 304-312): when nobody bought in a later
\* round the cheapest plant leaves the game and the market is refilled.
end_phase_2(s) ==
    LET s1 == IF ~s.frame.is_first_round
                 /\ s.frame.players_who_bought = {}
                 /\ s.current_market # << >>
              THEN update_market_after_purchase(
                       [s EXCEPT !.current_market =
                           Remove(s.current_market, MinCost(s.current_market))])
              ELSE s
    IN  begin_phase_3(
          Log([s1 EXCEPT !.phase = "buy_resources"],
              [op |-> "phase_2_end", first_round |-> s.frame.is_first_round,
               bought |-> s.frame.players_who_bought,
               passed |-> s.frame.players_who_passed,
               market_empty |-> (s.current_market = << >>)]))

\* A faulty variant of auction_loop: players who bought stay eligible.
auction_loop_buyers_stay(s) ==
    LET f == s.frame
        eligible == SelectSeq(s.player_order,
                        LAMBDA p : p \notin f.players_who_passed)
    IN  IF Cardinality(f.players_who_bought) + Cardinality(f.players_who_passed)
               < NumPlayers
           /\ eligible # << >>
           /\ s.current_market # << >>
        THEN [s EXCEPT !.pc = "auction_open",
                       !.frame = [f EXCEPT !.eligible_players = eligible,
                                           !.player_idx = eligible[1],
                                           !.attempt = 0, !.consults = 0,
                                           !.before = Holdings(s)]]
        ELSE end_phase_2(s)

\* The head of phase_2_auction's while loop (lines 254-272): the engine either
\* asks the first eligible player for an opening or leaves the loop.
auction_loop(s) ==
    LET f == s.frame
        eligible == SelectSeq(s.player_order,
                        LAMBDA p : p \notin f.players_who_bought
                                   /\ p \notin f.players_who_passed)
    IN  IF Cardinality(f.players_who_bought) + Cardinality(f.players_who_passed)
               < NumPlayers
           /\ eligible # << >>
           /\ s.current_market # << >>
        THEN [s EXCEPT !.pc = "auction_open",
                       !.frame = [f EXCEPT !.eligible_players = eligible,
                                           !.player_idx = eligible[1],
                                           !.attempt = 0, !.consults = 0,
                                           !.before = Holdings(s)]]
        ELSE end_phase_2(s)

\* The first statements of phase_2_auction (lines 246-248).
begin_phase_2(s) ==
    auction_loop([s EXCEPT !.frame =
        [Frame0 EXCEPT !.is_first_round = (s.round_num = 1)]])

\* Lines 295-298 of phase_2_auction after run_plant_auction returned: the
\* purchase is executed for the winner, who joins players_who_bought.
auction_won(s, winner_idx, final_bid, discard_card) ==
    LET s1 == execute_plant_purchase(s, winner_idx, s.frame.plant, final_bid,
                                     discard_card)
    IN  auction_loop(
          Log([s1 EXCEPT
                 !.frame = [s.frame EXCEPT
                     !.players_who_bought = s.frame.players_who_bought
                                                \cup {winner_idx},
                     !.plant = None, !.starter_idx = None,
                     !.active_bidders = << >>, !.queue = << >>,
                     !.made_bid = FALSE, !.current_bid = None,
                     !.current_winner = None, !.current_discard = None,
                     !.accepted = << >>]],
              [op |-> "purchase", winner |-> winner_idx,
               plant |-> s.frame.plant, bid |-> final_bid,
               discard |-> discard_card, accepted |-> s.frame.accepted,
               before |-> Holdings(s), after |-> Holdings(s1)]))

\* The end of run_plant_auction (lines 414-422): the auction state is "cleared"
\* (auction_active only) and the current winner is returned.
auction_resolve(s) ==
    auction_won([s EXCEPT !.auction_active = FALSE],
                s.frame.current_winner, s.frame.current_bid,
                s.frame.current_discard)

\* A pass that leaves the bidder among the active bidders.
bidder_stays(s, player_idx) == s

\* A bidder passes (lines 374-387): the bidder leaves active_bidders.
bidder_passes(s, player_idx) ==
    LET left == Remove(s.frame.active_bidders, player_idx)
    IN  [s EXCEPT !.frame.active_bidders = left,
                  !.auction_active_bidders = left]

\* The log entry of a pass: the auction state before (s) and after (t) it.
PassEntry(kind, player_idx, s, t) ==
    [op |-> kind, player |-> player_idx, consults |-> t.frame.consults,
     bid_before |-> s.frame.current_bid, winner_before |-> s.frame.current_winner,
     bid_after |-> t.frame.current_bid, winner_after |-> t.frame.current_winner,
     state_bid_after |-> t.auction_current_bid,
     state_winner_after |-> t.auction_current_winner,
     active_after |-> t.frame.active_bidders]

\* "for attempt in range(max_retries)": whether this attempt was the last.
retries_exhausted_late(attempt) == attempt >= MaxRetries

retries_exhausted(attempt) == attempt + 1 >= MaxRetries

\* run_plant_auction's loops (lines 362-412) from the head of the for loop:
\* the engine moves on to the next bidder of this round of bidding, starts a
\* new round, or ends the auction.  A bidder who cannot afford min_bid passes
\* without being asked (get_validated_auction_bid, lines 604-606).
RECURSIVE next_bidder(_)
next_bidder(s) ==
    LET f == s.frame IN
    IF f.queue = << >>
    THEN IF ~f.made_bid THEN auction_resolve(s)
         ELSE IF Len(f.active_bidders) > 0
              THEN next_bidder([s EXCEPT !.frame.made_bid = FALSE,
                                         !.frame.queue = f.active_bidders])
              ELSE auction_resolve(s)
    ELSE LET player_idx == Head(f.queue)
             min_bid == f.current_bid + 1
         IN  IF min_bid > s.money[player_idx]
             THEN LET t == bidder_passes(s, player_idx)
                  IN  next_bidder(
                        Log([t EXCEPT !.frame.queue = Tail(f.queue),
                                      !.frame.consults = 0],
                            PassEntry("bid_auto_pass", player_idx, s,
                                      [t EXCEPT !.frame.consults = 0])))
             ELSE [s EXCEPT !.pc = "auction_bid",
                            !.frame.player_idx = player_idx,
                            !.frame.attempt = 0, !.frame.consults = 0]

\* run_plant_auction up to its first wait (lines 329-362).
run_plant_auction(s, plant, starter_idx, initial_bid, initial_discard) ==
    LET f == s.frame
        active == SelectSeq(f.eligible_players,
                      LAMBDA p : p \notin f.players_who_passed
                                 /\ p # starter_idx)
        s1 == [s EXCEPT
                 !.auction_active = TRUE,
                 !.auction_plant = plant,
                 !.auction_current_bid = initial_bid,
                 !.auction_current_winner = starter_idx,
                 !.auction_active_bidders = active,
                 !.auction_starter = starter_idx,
                 !.frame = [f EXCEPT
                     !.plant = plant, !.starter_idx = starter_idx,
                     !.current_bid = initial_bid,
                     !.current_winner = starter_idx,
                     !.current_discard = initial_discard,
                     !.accepted = << << starter_idx, initial_bid >> >>,
                     !.active_bidders = active,
                     !.queue = active, !.made_bid = FALSE]]
    IN  IF active = << >>
        THEN auction_won([s1 EXCEPT !.auction_active = FALSE],
                         starter_idx, initial_bid, initial_discard)
        ELSE next_bidder(s1)

\* "raise Exception" out of the engine: the game is over with an error.
Fatal(s, why) ==
    Log([s EXCEPT !.pc = "fatal"],
        [op |-> "raise", why |-> why, player |-> s.frame.player_idx,
         consults |-> s.frame.consults, before |-> s.frame.before,
         after |-> Holdings(s)])

\* One pass of the retry loop of get_validated_auction_opening (lines 548-578)
\* with the strategy's answer, and what phase_2_auction does with an accepted
\* answer (lines 274-298).  An action of type "raise" is a strategy call that
\* raised an exception.
auction_opening_attempt(s0, action) ==
    LET s == [s0 EXCEPT !.frame.consults = s0.frame.consults + 1]
        f == s.frame
        p == f.player_idx
        rejected == \/ action.type = "raise"
                    \/ ~validate_auction_opening(s, p, action)
                    \/ (f.is_first_round /\ action.type = "auction_pass")
    IN  IF rejected
        THEN IF retries_exhausted(f.attempt)
             THEN Fatal(s, "opening")
             ELSE Log([s EXCEPT !.frame.attempt = f.attempt + 1],
                      [op |-> "opening_rejected", player |-> p,
                       wrong_tag |-> action.type \in ActionTypes
                                        \ {"auction_pass", "auction_open"}])
        ELSE IF action.type = "auction_pass"
        THEN auction_loop(
               Log([s EXCEPT !.frame.players_who_passed =
                                 f.players_who_passed \cup {p}],
                   [op |-> "opening_pass", player |-> p,
                    first_round |-> f.is_first_round]))
        ELSE run_plant_auction(
               Log(s, [op |-> "opening", player |-> p, action |-> action,
                       hand |-> s.cards[p]]),
               action.plant, p, action.bid, action.discard)

\* One pass of the retry loop of get_validated_auction_bid (lines 609-640)
\* with the strategy's answer, and what run_plant_auction does with the
\* returned action (lines 374-408).  An action of type "no_method" is a
\* strategy without bid_in_auction.
auction_bid_attempt(s0, action) ==
    LET s == [s0 EXCEPT !.frame.consults =
                 s0.frame.consults + (IF action.type = "no_method" THEN 0 ELSE 1)]
        f == s.frame
        p == f.player_idx
        min_bid == f.current_bid + 1
        rejected == \/ action.type = "raise"
                    \/ ~validate_auction_bid(s, p, action, min_bid)
        exhausted == rejected /\ retries_exhausted(f.attempt)
    IN  IF action.type # "no_method" /\ rejected /\ ~exhausted
        THEN Log([s EXCEPT !.frame.attempt = f.attempt + 1],
                 [op |-> "bid_rejected", player |-> p,
                  wrong_tag |-> action.type \in ActionTypes
                                   \ {"auction_bid_pass", "auction_bid"}])
        ELSE IF action.type \in {"no_method", "auction_bid_pass"} \/ exhausted
        THEN LET t == bidder_passes(s, p)
             IN  next_bidder(
                   Log([t EXCEPT !.frame.queue = Tail(f.queue)],
                       PassEntry(IF action.type = "no_method" THEN "bid_no_method"
                                 ELSE IF exhausted THEN "bid_exhausted"
                                 ELSE "bid_pass", p, s, t)))
        ELSE next_bidder(
               Log([s EXCEPT !.frame.current_bid = action.bid,
                             !.frame.current_winner = p,
                             !.frame.current_discard = action.discard,
                             !.frame.made_bid = TRUE,
                             !.frame.accepted = Append(@, << p, action.bid >>),
                             !.frame.queue = Tail(f.queue),
                             !.auction_current_bid = action.bid,
                             !.auction_current_winner = p],
                   [op |-> "bid", player |-> p, tag |-> action.type,
                    bid |-> action.bid,
                    discard |-> action.discard, hand |-> s.cards[p],
                    leader_before |-> f.current_winner,
                    min_bid |-> min_bid, money |-> s.money[p]]))

(***************************************************************************)
(* Phase 3, buying resources: game_engine.py lines 762-840                 *)
(***************************************************************************)

\* GameEngine.validate_resource_purchase
validate_resource_purchase(s, player_idx, resource_type, amount) ==
    LET hand == s.cards[player_idx]
        counts(c) == \/ CardTable[c].resource = resource_type
                     \/ (CardTable[c].resource = "oil&gas"
                         /\ resource_type \in {"oil", "gas"})
        has_plant == \E i \in DOMAIN hand : counts(hand[i])
        total_capacity ==
            SeqSum([i \in DOMAIN hand |->
                      IF counts(hand[i]) THEN CardTable[hand[i]].resource_cost * 2
                      ELSE 0])
    IN  /\ has_plant
        /\ s.inventory[player_idx][resource_type] + amount <= total_capacity

\* The log entry of one sub-purchase: what it did to the pool and the player.
SubEntry(outcome, player_idx, resource_type, amount, s, t) ==
    [op |-> "sub_purchase", outcome |-> outcome, player |-> player_idx,
     resource |-> resource_type, amount |-> amount,
     pool_before |-> IF resource_type \in ResourceTypes
                     THEN s.resources[resource_type] ELSE None,
     pool_after  |-> IF resource_type \in ResourceTypes
                     THEN t.resources[resource_type] ELSE None,
     money_before |-> s.money[player_idx], money_after |-> t.money[player_idx],
     inventory_before |-> s.inventory[player_idx],
     inventory_after |-> t.inventory[player_idx]]

\* One pass of the loop over action.resources (lines 784-814).
sub_purchase(s, player_idx, resource_type, amount) ==
    IF ~(amount > 0 /\ resource_type \in DOMAIN s.resources)
    THEN Log(s, SubEntry("ignored", player_idx, resource_type, amount, s, s))
    ELSE IF ~validate_resource_purchase(s, player_idx, resource_type, amount)
    THEN Log(s, SubEntry("invalid", player_idx, resource_type, amount, s, s))
    ELSE
    LET r == buy_resource(s.resources[resource_type], amount)
        s1 == [s EXCEPT !.resources[resource_type] = r.pool]
    IN  IF ~r.result.ok
        THEN Log(s1, SubEntry("no_supply", player_idx, resource_type, amount,
                              s, s1))
        ELSE IF r.result.cost > s.money[player_idx]
        THEN LET s2 == [s1 EXCEPT !.resources[resource_type] =
                                      resupply(r.pool, amount)]
             IN  Log(s2, SubEntry("unaffordable", player_idx, resource_type,
                                  amount, s, s2))
        ELSE LET s2 == [s1 EXCEPT
                          !.money[player_idx] =
                              update_money(s.money[player_idx],
                                           0 - r.result.cost),
                          !.inventory[player_idx][resource_type] = @ + amount]
             IN  Log(s2, SubEntry("bought", player_idx, resource_type, amount,
                                  s, s2))

RECURSIVE sub_purchases(_, _, _)
sub_purchases(s, player_idx, items) ==
    IF items = << >> THEN s
    ELSE sub_purchases(sub_purchase(s, player_idx, items[1][1], items[1][2]),
                       player_idx, Tail(items))

\* A ValueError out of a phase: a strategy without the right answer.
Abort(s, why) ==
    Log([s EXCEPT !.pc = "fatal"],
        [op |-> "raise", why |-> why, player |-> Head(s.frame.order),
         consults |-> 1, before |-> Holdings(s), after |-> Holdings(s)])

\* A faulty variant of begin_phase_4: the build order is the turn order.
begin_phase_4_turn_order(s) ==
    [s EXCEPT !.pc = "build",
              !.frame = [Frame0 EXCEPT !.order = s.player_order,
                                       !.is_first_round = (s.round_num = 1)]]

\* The first statements of phase_4_build (lines 879-882) and the wait for the
\* first player's choose_cities_to_build.
begin_phase_4(s) ==
    [s EXCEPT !.pc = "build",
              !.frame = [Frame0 EXCEPT !.order = Reverse(s.player_order),
                                       !.is_first_round = (s.round_num = 1)]]

\* One pass of phase_3_buy_resources' loop over the players (lines 767-814)
\* with the strategy's answer; after the last player the phase ends (816).
buy_resources_step(s, action) ==
    LET player_idx == Head(s.frame.order) IN
    IF action.type # "resource_purchase"
    THEN Abort(s, "choose_resources")
    ELSE LET s1 == sub_purchases(
                     Log(s, [op |-> "order", player |-> player_idx,
                             tag |-> action.type,
                             items |-> action.resources]),
                     player_idx, action.resources)
         IN  IF Tail(s.frame.order) = << >>
             THEN begin_phase_4(
                    Log([s1 EXCEPT !.phase = "build"],
                        [op |-> "phase_3_end"]))
             ELSE [s1 EXCEPT !.frame.order = Tail(s.frame.order)]

(***************************************************************************)
(* Phase 4, building: game_engine.py lines 876-999                         *)
(***************************************************************************)

\* The board graph of the simple_board_graph fixture: the direct connections.
Edge(a, b) ==
    CASE {a, b} = {"A", "B"} -> 5
      [] {a, b} = {"A", "D"} -> 10
      [] {a, b} = {"B", "C"} -> 7
      [] {a, b} = {"B", "E"} -> 8
      [] {a, b} = {"D", "E"} -> 6
      [] OTHER -> None

\* The fixture as the dictionary the engine is constructed with: for every
\* city the cost of each of its direct connections.
simple_board_graph ==
    [a \in Cities |-> [b \in { c \in Cities : Edge(a, c) # None } |->
                         Edge(a, b)]]

NoPathCost == 50

RECURSIVE SetMin(_)
SetMin(xs) ==
    LET x == CHOOSE y \in xs : TRUE
    IN  IF xs = {x} THEN x ELSE Min2(x, SetMin(xs \ {x}))

\* GameEngine.calculate_connection_cost: direct connections, else two-hop
\* paths, from any of the player's cities; 50 when none is found.
calculate_connection_cost(s, player_idx, target_city) ==
    LET graph == s.board_graph
        gens == Range(s.generators[player_idx])
        from(c) ==
            IF ~(c \in DOMAIN graph /\ target_city \in DOMAIN graph) THEN {}
            ELSE IF target_city \in DOMAIN graph[c]
            THEN { graph[c][target_city] }
            ELSE { graph[c][x] + graph[x][target_city] :
                     x \in { y \in DOMAIN graph[c] :
                               /\ y \in DOMAIN graph
                               /\ target_city \in DOMAIN graph[y] } }
        costs == UNION { from(c) : c \in gens }
    IN  IF gens = {} THEN 0
        ELSE IF costs = {} THEN NoPathCost
        ELSE SetMin(costs)

\* The loop of remove_plants_below_city_count over to_remove (lines 993-997).
RECURSIVE replace_plants(_, _)
replace_plants(s, to_remove) ==
    IF to_remove = << >> THEN s
    ELSE LET s1 == [s EXCEPT !.current_market = Remove(@, Head(to_remove))]
             d  == draw_next_plant(s1)
         IN  replace_plants(
               IF d.plant # None
               THEN [d.s EXCEPT !.current_market = Append(@, d.plant)]
               ELSE d.s,
               Tail(to_remove))

\* GameEngine.remove_plants_below_city_count
remove_plants_below_city_count(s) ==
    LET max_cities == SetMax({ Len(s.generators[p]) : p \in Players })
        to_remove == SelectSeq(s.current_market, LAMBDA c : c <= max_cities)
        s1 == replace_plants(s, to_remove)
    IN  [s1 EXCEPT !.current_market = SortByCost(@)]

BuildingCost(position) == 10 + 5 * position

MaxOccupancy == 3

\* One pass of the loop over action.cities without the slot limit of the step:
\* a city takes a generator whenever the player can pay.
build_city_any_slot(s, player_idx, city_name) ==
    IF city_name \notin DOMAIN s.city_occupancy THEN s
    ELSE IF city_name \in Range(s.generators[player_idx]) THEN s
    ELSE
    LET position == Len(s.city_occupancy[city_name]) IN
    IF position = MaxOccupancy THEN s
    ELSE
    LET total_cost == BuildingCost(position)
                         + calculate_connection_cost(s, player_idx, city_name)
        built == s.money[player_idx] >= total_cost
        s1 == IF built
              THEN Log([s EXCEPT
                          !.money[player_idx] =
                              update_money(s.money[player_idx], 0 - total_cost),
                          !.generators[player_idx] = Append(@, city_name),
                          !.city_occupancy[city_name] = Append(@, player_idx)],
                       [op |-> "built", player |-> player_idx,
                        city |-> city_name, cost |-> total_cost,
                        position |-> position,
                        money_before |-> s.money[player_idx]])
              ELSE s
    IN  remove_plants_below_city_count(s1)

\* One pass of the loop over action.cities (lines 901-936).
build_city(s, player_idx, city_name) ==
    IF city_name \notin DOMAIN s.city_occupancy THEN s
    ELSE IF city_name \in Range(s.generators[player_idx]) THEN s
    ELSE
    LET position == Len(s.city_occupancy[city_name]) IN
    IF position = MaxOccupancy THEN s
    ELSE
    LET total_cost == BuildingCost(position)
                         + calculate_connection_cost(s, player_idx, city_name)
        built == s.money[player_idx] >= total_cost /\ position < s.step
        s1 == IF built
              THEN Log([s EXCEPT
                          !.money[player_idx] =
                              update_money(s.money[player_idx], 0 - total_cost),
                          !.generators[player_idx] = Append(@, city_name),
                          !.city_occupancy[city_name] = Append(@, player_idx)],
                       [op |-> "built", player |-> player_idx,
                        city |-> city_name, cost |-> total_cost,
                        position |-> position,
                        money_before |-> s.money[player_idx]])
              ELSE s
    IN  remove_plants_below_city_count(s1)

RECURSIVE build_cities(_, _, _)
build_cities(s, player_idx, cities) ==
    IF cities = << >> THEN s
    ELSE build_cities(build_city(s, player_idx, Head(cities)), player_idx,
                      Tail(cities))

(***************************************************************************)
(* Phase 5, bureaucracy: game_engine.py lines 1001-1203                    *)
(***************************************************************************)

\* PAYMENT_TABLE.get(cities, 0)
Payment(cities) ==
    LET table == << 22, 33, 44, 54, 64, 73, 82, 90, 98, 105,
                    112, 118, 124, 129, 134, 138, 142, 145, 148, 150 >>
    IN  IF cities = 0 THEN 10
        ELSE IF cities \in DOMAIN table THEN table[cities]
        ELSE 0

\* RESUPPLY_TABLES[resource_type][num_players][step_idx]
ResupplyAmount(resource_type, num_players, the_step) ==
    LET row ==
          CASE resource_type = "coal" ->
                 CASE num_players \in {2, 3} -> << 2, 6, 2 >>
                   [] num_players = 4 -> << 3, 7, 4 >>
                   [] num_players = 5 -> << 3, 8, 4 >>
                   [] OTHER -> << 5, 10, 5 >>
            [] resource_type = "gas" ->
                 CASE num_players \in {2, 3} -> << 2, 3, 5 >>
                   [] num_players = 4 -> << 3, 4, 5 >>
                   [] num_players = 5 -> << 3, 5, 7 >>
                   [] OTHER -> << 4, 6, 8 >>
            [] resource_type = "oil" ->
                 CASE num_players \in {2, 3} -> << 2, 2, 3 >>
                   [] num_players = 4 -> << 3, 3, 4 >>
                   [] num_players = 5 -> << 4, 3, 5 >>
                   [] OTHER -> << 4, 5, 6 >>
            [] OTHER ->
                 CASE num_players \in {2, 3} -> << 1, 1, 2 >>
                   [] num_players = 4 -> << 1, 2, 2 >>
                   [] num_players = 5 -> << 2, 3, 3 >>
                   [] OTHER -> << 2, 3, 4 >>
    IN  row[the_step]

\* GameEngine.calculate_cities_powered
calculate_cities_powered(s, player_idx) ==
    LET hand == s.cards[player_idx]
        inv == s.inventory[player_idx]
        power(c) ==
            LET r == CardTable[c].resource IN
            IF r = "green" THEN CardTable[c].cities
            ELSE IF r \in {"coal", "gas", "oil", "uranium"}
                 THEN (IF inv[r] >= CardTable[c].resource_cost
                       THEN CardTable[c].cities ELSE 0)
            ELSE IF r = "oil&gas"
                 THEN (IF inv["oil"] + inv["gas"] >= CardTable[c].resource_cost
                       THEN CardTable[c].cities ELSE 0)
            ELSE 0
    IN  Min2(Len(s.generators[player_idx]),
             SeqSum([i \in DOMAIN hand |-> power(hand[i])]))

\* The resource a plant burns as consume_resources_for_power names it.
BurnType(c) ==
    IF CardTable[c].resource = "nuclear" THEN "uranium"
    ELSE CardTable[c].resource

\* plants_to_use of consume_resources_for_power (lines 1151-1163): the plants
\* the inventory at the start of the call can feed, as <<card, cost>>.
PlantsToUse(s, player_idx) ==
    LET inv == s.inventory[player_idx]
        usable(c) ==
            \/ CardTable[c].resource = "green"
            \/ (IF BurnType(c) = "oil&gas" THEN inv["oil"] + inv["gas"]
                ELSE IF BurnType(c) \in ResourceTypes THEN inv[BurnType(c)]
                ELSE 0) >= CardTable[c].resource_cost
    IN  SelectSeq(s.cards[player_idx], usable)

\* The sort key of line 1166: green first, then more cities per (cost + 1).
UsedBefore(a, b) ==
    LET ga == CardTable[a].resource = "green"
        gb == CardTable[b].resource = "green"
        ca == IF ga THEN 0 ELSE CardTable[a].resource_cost
        cb == IF gb THEN 0 ELSE CardTable[b].resource_cost
    IN  IF ga # gb THEN ga
        ELSE CardTable[a].cities * (cb + 1) > CardTable[b].cities * (ca + 1)

\* list.sort by that key (a stable sort).
RECURSIVE SortForUse(_)
SortForUse(seq) ==
    IF seq = << >> THEN << >>
    ELSE LET rest == SortForUse(Tail(seq))
             x == Head(seq)
             k == Cardinality({ j \in DOMAIN rest : UsedBefore(rest[j], x) })
         IN  SubSeq(rest, 1, k) \o << x >> \o SubSeq(rest, k + 1, Len(rest))

\* A player burns units: the inventory loses them, the pool's reserve gets
\* them (player.resources[...] -= n; use_resource(n)).
Burn(s, player_idx, resource_type, n) ==
    [s EXCEPT !.inventory[player_idx][resource_type] = @ - n,
              !.resources[resource_type] = use_resource(@, n)]

\* The body of the loop of lines 1170-1203 for one plant.
use_plant(s, player_idx, c) ==
    LET cost == CardTable[c].resource_cost
        inv == s.inventory[player_idx]
    IN  IF CardTable[c].resource = "green" THEN s
        ELSE IF BurnType(c) = "oil&gas"
        THEN IF inv["oil"] >= cost THEN Burn(s, player_idx, "oil", cost)
             ELSE IF inv["gas"] >= cost THEN Burn(s, player_idx, "gas", cost)
             ELSE LET use_oil == IF inv["oil"] > 0 THEN Min2(cost, inv["oil"])
                                 ELSE 0
                      s1 == IF inv["oil"] > 0
                            THEN Burn(s, player_idx, "oil", use_oil) ELSE s
                  IN  IF cost - use_oil > 0
                      THEN Burn(s1, player_idx, "gas", cost - use_oil) ELSE s1
        ELSE Burn(s, player_idx, BurnType(c), cost)

RECURSIVE use_plants(_, _, _, _, _)
use_plants(s, player_idx, plants, cities_powered, cities_to_power) ==
    IF plants = << >> \/ cities_powered >= cities_to_power THEN s
    ELSE use_plants(use_plant(s, player_idx, Head(plants)), player_idx,
                    Tail(plants),
                    cities_powered + CardTable[Head(plants)].cities,
                    cities_to_power)

\* GameEngine.consume_resources_for_power
consume_resources_for_power(s, player_idx, cities_to_power) ==
    IF cities_to_power = 0 THEN s
    ELSE use_plants(s, player_idx, SortForUse(PlantsToUse(s, player_idx)), 0,
                    cities_to_power)

(***************************************************************************)
(* The round loop: run_game (lines 125-226), phase 1, the step transitions *)
(* and the end of the game                                                 *)
(***************************************************************************)

MaxRounds == 2

EndGameCities == 18

\* STEP_2_THRESHOLDS.get(num_players, 7)
Step2Threshold(num_players) ==
    IF num_players = 5 THEN 6 ELSE IF num_players = 6 THEN 5 ELSE 7

\* The sort key of phase_1_determine_order: more cities first, then the
\* larger largest plant.
OrderedBefore(s, a, b) ==
    LET ca == Len(s.generators[a])
        cb == Len(s.generators[b])
        la == IF s.cards[a] = << >> THEN 0 ELSE MaxCost(s.cards[a])
        lb == IF s.cards[b] = << >> THEN 0 ELSE MaxCost(s.cards[b])
    IN  ca > cb \/ (ca = cb /\ la > lb)

\* sorted(player_order, key=sort_key), a stable sort.
RECURSIVE SortOrder(_, _)
SortOrder(s, seq) ==
    IF seq = << >> THEN << >>
    ELSE LET rest == SortOrder(s, Tail(seq))
             x == Head(seq)
             k == Cardinality({ j \in DOMAIN rest : OrderedBefore(s, rest[j], x) })
         IN  SubSeq(rest, 1, k) \o << x >> \o SubSeq(rest, k + 1, Len(rest))

\* A faulty variant of phase_1_determine_order: the order is kept as it was.
phase_1_keep_order(s) == [s EXCEPT !.phase = "auction"]

\* GameEngine.phase_1_determine_order
phase_1_determine_order(s) ==
    [s EXCEPT !.player_order = SortOrder(s, s.player_order),
              !.phase = "auction"]

\* The loop of determine_winner over enumerate(self.players) (lines 1250-1256):
\* the players with the best count so far, in index order.
RECURSIVE best_scan(_, _, _, _)
best_scan(s, player_idx, best_powered, best_players) ==
    IF player_idx >= NumPlayers THEN best_players
    ELSE LET cities_powered == calculate_cities_powered(s, player_idx)
         IN  IF cities_powered > best_powered
             THEN best_scan(s, player_idx + 1, cities_powered,
                            << player_idx >>)
             ELSE IF cities_powered = best_powered
             THEN best_scan(s, player_idx + 1, best_powered,
                            Append(best_players, player_idx))
             ELSE best_scan(s, player_idx + 1, best_powered, best_players)

\* best_players.sort(key=money, reverse=True): stable, equal money keeps the
\* order of the list.
RECURSIVE SortByMoney(_, _)
SortByMoney(s, seq) ==
    IF seq = << >> THEN << >>
    ELSE LET rest == SortByMoney(s, Tail(seq))
             x == Head(seq)
             k == Cardinality({ j \in DOMAIN rest :
                                  s.money[rest[j]] > s.money[x] })
         IN  SubSeq(rest, 1, k) \o << x >> \o SubSeq(rest, k + 1, Len(rest))

\* A faulty variant of determine_winner: the richest player.
determine_winner_richest(s) ==
    Head(SortByMoney(s, [i \in 1..NumPlayers |-> i - 1]))

\* GameEngine.determine_winner
determine_winner(s) ==
    LET best_players == best_scan(s, 0, 0 - 1, << >>)
    IN  Head(IF Len(best_players) > 1 THEN SortByMoney(s, best_players)
             ELSE best_players)

\* The statements of run_game after its loop (lines 207-226).
finish_game(s) ==
    Log([s EXCEPT !.pc = "done"],
        [op |-> "game_over", winner_idx |-> determine_winner(s)])

\* A faulty variant of run_game's loop head: without the check of max_rounds.
begin_round_no_limit(s) ==
    IF s.game_over THEN finish_game(s)
    ELSE begin_phase_2(
           Log(phase_1_determine_order(s),
               [op |-> "round", round_num |-> s.round_num,
                money |-> s.money]))

\* The head of run_game's loop up to the first wait of phase 2 (145-166).
begin_round(s) ==
    IF s.game_over THEN finish_game(s)
    ELSE IF s.round_num > MaxRounds
    THEN finish_game([s EXCEPT !.game_over = TRUE])
    ELSE begin_phase_2(
           Log(phase_1_determine_order(s),
               [op |-> "round", round_num |-> s.round_num,
                money |-> s.money]))

\* A faulty variant of check_step_transitions: a step further every round.
check_step_every_round(s) ==
    IF s.step < 3 THEN [s EXCEPT !.step = @ + 1] ELSE s

\* GameEngine.check_step_transitions
check_step_transitions(s) ==
    LET s1 == IF s.step = 1
                 /\ \E p \in Players :
                       Len(s.generators[p]) >= Step2Threshold(NumPlayers)
              THEN IF s.current_market # << >>
                   THEN update_market_after_purchase(
                          [s EXCEPT !.step = 2,
                                    !.current_market =
                                        Remove(@, MinCost(s.current_market))])
                   ELSE [s EXCEPT !.step = 2]
              ELSE s
    IN  IF s1.step = 2 /\ s1.step_3_triggered
        THEN LET cm == IF s1.current_market # << >>
                       THEN Remove(s1.current_market, MinCost(s1.current_market))
                       ELSE s1.current_market
                 all_plants == SortByCost(cm \o s1.future_market)
             IN  [s1 EXCEPT !.step = 3,
                            !.current_market =
                                SubSeq(all_plants, 1, Min2(6, Len(all_plants))),
                            !.future_market = << >>]
        ELSE s1

\* Part 3 of phase_5_bureaucracy: the power plant market (lines 1050-1093).
rotate_market(s) ==
    IF s.step \in {1, 2}
    THEN LET s1 == IF s.future_market # << >>
                   THEN [s EXCEPT
                           !.future_market = Remove(@, MaxCost(s.future_market)),
                           !.deck = Append(@, MaxCost(s.future_market))]
                   ELSE s
             d == draw_next_plant(s1)
         IN  IF d.plant # None
             THEN [d.s EXCEPT !.future_market = SortByCost(Append(@, d.plant))]
             ELSE d.s
    ELSE IF s.step = 3 /\ s.current_market \o s.future_market # << >>
    THEN LET smallest == MinCost(s.current_market \o s.future_market)
             s1 == IF smallest \in Range(s.current_market)
                   THEN [s EXCEPT !.current_market = Remove(@, smallest)]
                   ELSE [s EXCEPT !.future_market = Remove(@, smallest)]
             d == draw_next_plant(s1)
             all_plants == SortByCost(Append(d.s.current_market
                                                \o d.s.future_market, d.plant))
         IN  IF d.plant # None
             THEN [d.s EXCEPT !.current_market =
                                  SubSeq(all_plants, 1, Min2(6, Len(all_plants))),
                              !.future_market = << >>]
             ELSE d.s
    ELSE s

\* Part 2 of phase_5_bureaucracy: every resource is resupplied (1042-1046).
RECURSIVE resupply_all(_, _)
resupply_all(s, types) ==
    IF types = {} THEN s
    ELSE LET rt == CHOOSE x \in types : TRUE
         IN  resupply_all(
               [s EXCEPT !.resources[rt] =
                   resupply(@, ResupplyAmount(rt, NumPlayers, s.step))],
               types \ {rt})

\* The end of a round: the rest of phase_5_bureaucracy, check_step_transitions
\* and the next round's start (lines 1041-1095, 191-205).
end_round(s) ==
    LET s1 == rotate_market(resupply_all(s, ResourceTypes))
        s2 == check_step_transitions(
                Log([s1 EXCEPT !.phase = "determine_order"],
                    [op |-> "phase_5_end", money |-> s1.money]))
    IN  begin_round([s2 EXCEPT !.round_num = s.round_num + 1,
                               !.phase = "determine_order",
                               !.frame = Frame0])

\* One pass of phase_5_bureaucracy's loop over the players (lines 1004-1039)
\* with the strategy's answer; power_plan is the int of the answer.
power_step(s, action) ==
    LET player_idx == Head(s.frame.order) IN
    IF action.type # "power_cities" THEN Abort(s, "choose_cities_to_power")
    ELSE
    LET max_cities == Len(s.generators[player_idx])
        capped == IF action.power_plan > max_cities THEN max_cities
                  ELSE action.power_plan
        actual_powered == Min2(capped, calculate_cities_powered(s, player_idx))
        s1 == consume_resources_for_power(s, player_idx, actual_powered)
        payment == Payment(actual_powered)
        s2 == Log([s1 EXCEPT !.money[player_idx] =
                                 update_money(s1.money[player_idx], payment)],
                  [op |-> "powered", player |-> player_idx,
                   tag |-> action.type,
                   plan |-> action.power_plan, actual |-> actual_powered,
                   payment |-> payment,
                   inventory_before |-> s.inventory[player_idx]])
    IN  IF Tail(s.frame.order) = << >> THEN end_round(s2)
        ELSE [s2 EXCEPT !.frame.order = Tail(s.frame.order)]

\* A faulty variant of begin_phase_5: no player is asked, the phase goes
\* straight to its end.
begin_phase_5_skipped(s) == end_round(s)

\* The first statement of phase_5_bureaucracy: the players in index order.
begin_phase_5(s) ==
    [s EXCEPT !.pc = "bureaucracy",
              !.frame = [Frame0 EXCEPT !.order = [i \in 1..NumPlayers |-> i - 1]]]

\* A faulty variant of check_end_game: the game never ends on the cities.
check_end_game_never(s) == FALSE

\* GameEngine.check_end_game
check_end_game(s) ==
    \E p \in Players : Len(s.generators[p]) >= EndGameCities

\* One pass of phase_4_build's loop over the players (lines 884-936) with the
\* strategy's answer; after the last player the phase ends and run_game checks
\* for the end of the game (lines 938, 181-187).
build_step(s, action) ==
    LET player_idx == Head(s.frame.order) IN
    IF action.type # "city_build" THEN Abort(s, "choose_cities_to_build")
    ELSE
    LET s1 == build_cities(
                Log(s, [op |-> "build_list", player |-> player_idx,
                        tag |-> action.type,
                        cities |-> action.cities]),
                player_idx, action.cities)
    IN  IF Tail(s.frame.order) # << >>
        THEN [s1 EXCEPT !.frame.order = Tail(s.frame.order)]
        ELSE LET s2 == Log([s1 EXCEPT !.phase = "bureaucracy"],
                           [op |-> "phase_4_end", money |-> s1.money])
             IN  IF check_end_game(s2)
                 THEN finish_game([s2 EXCEPT !.game_over = TRUE])
                 ELSE begin_phase_5(s2)

(***************************************************************************)
(* The state after construction (GameState.__init__, Player.__init__) and  *)
(* the resource market on its own                                          *)
(***************************************************************************)

Is(t) ==
    /\ money = t.money /\ cards = t.cards /\ generators = t.generators
    /\ inventory = t.inventory /\ current_market = t.current_market
    /\ future_market = t.future_market /\ deck = t.deck
    /\ resources = t.resources /\ player_order = t.player_order
    /\ step = t.step /\ round_num = t.round_num /\ phase = t.phase
    /\ step_3_triggered = t.step_3_triggered /\ game_over = t.game_over
    /\ winner = t.winner /\ city_occupancy = t.city_occupancy
    /\ board_graph = t.board_graph
    /\ auction_active = t.auction_active /\ auction_plant = t.auction_plant
    /\ auction_current_bid = t.auction_current_bid
    /\ auction_current_winner = t.auction_current_winner
    /\ auction_active_bidders = t.auction_active_bidders
    /\ auction_starter = t.auction_starter
    /\ pc = t.pc /\ frame = t.frame /\ last = t.last

\* The sizes of the bins of the ladder the resource market is exercised on.
PoolBinSizes == << 2, 2, 2 >>

MaxSupply == 7

MaxUnits == 3

PoolCoal == "coal"

EmptyPool(bin_sizes) == initialize_supply(0, << 1, 0 >>, bin_sizes)

\* GameState.__init__ and Player.__init__ for given markets, deck, pools and
\* player order.
GameState(cur, fut, dk, pools, order) ==
    [ money |-> [p \in Players |-> StartMoney],
      cards |-> [p \in Players |-> << >>],
      generators |-> [p \in Players |-> << >>],
      inventory |-> [p \in Players |-> [rt \in ResourceTypes |-> 0]],
      current_market |-> SortByCost(cur), future_market |-> SortByCost(fut),
      deck |-> dk, resources |-> pools, player_order |-> order,
      step |-> 1, round_num |-> 1, phase |-> "determine_order",
      step_3_triggered |-> FALSE, game_over |-> FALSE, winner |-> None,
      city_occupancy |-> [c \in Cities |-> << >>],
      board_graph |-> simple_board_graph,
      auction_active |-> FALSE, auction_plant |-> None,
      auction_current_bid |-> None, auction_current_winner |-> None,
      auction_active_bidders |-> << >>, auction_starter |-> None,
      pc |-> "start", frame |-> Frame0, last |-> Last0 ]

IdentityOrder == [i \in 1..NumPlayers |-> i - 1]

\* Resource(total_supply, start_allocation, capacity_list, name) followed by
\* initialize_supply(), as setup_game does for each resource.
InitPool ==
    \E total \in 0..MaxSupply :
    \E a \in 1..Len(PoolBinSizes) :
    \E b \in a..Len(PoolBinSizes) :
        Is([GameState(<< >>, << >>, << >>,
                [rt \in ResourceTypes |->
                    IF rt = PoolCoal
                    THEN initialize_supply(total, << a, b >>, PoolBinSizes)
                    ELSE EmptyPool(PoolBinSizes)],
                IdentityOrder) EXCEPT !.pc = "pool"])

PoolBuy ==
    /\ pc = "pool"
    /\ \E num_res \in 0..MaxUnits :
       \E r \in {buy_resource(resources[PoolCoal], num_res)} :
          Becomes([S EXCEPT !.resources[PoolCoal] = r.pool,
                            !.last = [op |-> "buy_resource", num |-> num_res,
                                      before |-> resources[PoolCoal],
                                      result |-> r.result]])

PoolUse ==
    /\ pc = "pool"
    /\ \E num_units \in 1..MaxUnits :
          /\ resources[PoolCoal].total_supply + num_units <= MaxSupply
          /\ Becomes([S EXCEPT !.resources[PoolCoal] =
                                   use_resource(resources[PoolCoal], num_units),
                               !.last = [op |-> "use_resource",
                                         num |-> num_units,
                                         before |-> resources[PoolCoal]]])

PoolResupply ==
    /\ pc = "pool"
    /\ \E resupply_units \in 0..MaxUnits :
          Becomes([S EXCEPT !.resources[PoolCoal] =
                                resupply(resources[PoolCoal], resupply_units),
                            !.last = [op |-> "resupply",
                                      num |-> resupply_units,
                                      before |-> resources[PoolCoal]]])

NextPool == PoolResupply \/ PoolBuy \/ PoolUse

SpecPool == InitPool /\ [][NextPool]_vars

\* C7: for each resource pool, occupied_slots + total_supply is the same
\* before and after every buy_resource, use_resource and resupply call.
C7_SumUnchanged ==
    last.op \in {"buy_resource", "use_resource", "resupply"} =>
        occupied_slots(resources[PoolCoal]) + resources[PoolCoal].total_supply
            = occupied_slots(last.before) + last.before.total_supply

\* The slots a buy_resource call emptied.
Emptied ==
    OccupiedCells(last.before.capacity_list)
        \ OccupiedCells(resources[PoolCoal].capacity_list)

\* C8: buy_resource(n) with 1 <= n <= occupied slots empties exactly the n
\* cheapest occupied slots and returns (n, the sum of their bin prices); with
\* n above the number of occupied slots it returns the failure value and
\* changes no slot.
C8_BuyCheapest ==
    last.op = "buy_resource" =>
        LET before == last.before.capacity_list
            after  == resources[PoolCoal].capacity_list
            occ    == OccupiedCells(before)
        IN  /\ (last.num >= 1 /\ last.num <= Cardinality(occ)) =>
                  /\ last.result.ok
                  /\ last.result.num = last.num
                  /\ OccupiedCells(after) \subseteq occ
                  /\ Cardinality(Emptied) = last.num
                  /\ \A e \in Emptied : \A r \in OccupiedCells(after) :
                         PriceAt(before, e) <= PriceAt(before, r)
                  /\ last.result.cost = SetSumPrice(before, Emptied)
            /\ last.num > Cardinality(occ) =>
                  /\ ~last.result.ok
                  /\ after = before

\* A purchase of two or more units that spans two bins.
C8_Witness ==
    /\ last.op = "buy_resource"
    /\ last.result.ok
    /\ last.num >= 2
    /\ \E e1 \in Emptied : \E e2 \in Emptied : e1[1] # e2[1]

\* The slots a resupply call filled.
Filled ==
    OccupiedCells(resources[PoolCoal].capacity_list)
        \ OccupiedCells(last.before.capacity_list)

\* C9: resupply(amount) places exactly min(amount, total_supply, number of
\* empty slots) units, highest-price bin first, over all bins of the ladder
\* including the cheapest.
C9_ResupplyAllBins ==
    (last.op = "resupply" /\ last.before.total_supply >= 0) =>
        LET before == last.before.capacity_list
            after  == resources[PoolCoal].capacity_list
        IN  /\ OccupiedCells(before) \subseteq OccupiedCells(after)
            /\ Cardinality(Filled) =
                  Min2(Min2(last.num, last.before.total_supply),
                       Cardinality(EmptyCells(before)))
            /\ \A c \in Filled : \A d \in EmptyCells(after) :
                  PriceAt(before, d) <= PriceAt(before, c)


(***************************************************************************)
(* The auction phase on its own: phase_2_auction called on a game state    *)
(* set up as the tests of test_game_engine.py set it up (hands and money   *)
(* assigned directly, then the phase is run).                              *)
(***************************************************************************)

\* A step starts with an empty log.
Begin(s) == [s EXCEPT !.last = [op |-> "step", ev |-> << >>]]

\* The cards of the game, cheapest first, and the marker card.
AllCards == << 3, 4, 5, 6, 7, 8, 9, 10, 11, 12, 13, 14, 15, 16, 21 >>

LowMoney == 12

LaterRound == 4

MaxRaise == 1

\* The hands a player can hold when the phase starts: none, or three plants.
HandOptions(p) ==
    IF p = 0 THEN { << >>, << 5, 15, 16 >> }
    ELSE { << >>, << 3 + 3 * p, 4 + 3 * p, 5 + 3 * p >> }

Orders(n) ==
    { f \in [1..n -> 0..(n - 1)] : \A i, j \in 1..n : i # j => f[i] # f[j] }

\* The setup pools of setup_game: total supplies 27, 24, 20, 12 and the start
\* allocations (2,9), (3,8), (3,9), (8,9) on the nine-bin ladder.
SetupBinSizes == << 4, 4, 4, 4, 4, 4, 2, 2, 2 >>

SetupPools ==
    [rt \in ResourceTypes |->
        CASE rt = "coal"    -> initialize_supply(27, << 2, 9 >>, SetupBinSizes)
          [] rt = "gas"     -> initialize_supply(24, << 3, 8 >>, SetupBinSizes)
          [] rt = "oil"     -> initialize_supply(20, << 3, 9 >>, SetupBinSizes)
          [] rt = "uranium" -> initialize_supply(12, << 8, 9 >>, SetupBinSizes)]

\* The game state with the given hands, money, round and order: the hands'
\* cards are out of the game's cards, the rest fills the markets and the deck,
\* the marker at the bottom of the deck.
Scenario(hands, cash, rnd, order) ==
    LET held == UNION { Range(hands[p]) : p \in Players }
        rest == SelectSeq(AllCards, LAMBDA c : c \notin held)
        g == GameState(SubSeq(rest, 1, 4), SubSeq(rest, 5, 8),
                       Append(SubSeq(rest, 9, Len(rest)), StageThree),
                       SetupPools, order)
    IN  [g EXCEPT !.cards = hands, !.money = cash, !.round_num = rnd,
                  !.phase = "auction"]

InitAuction ==
    \E order \in Orders(NumPlayers) :
       \/ Is(begin_phase_2(Scenario([p \in Players |-> << >>],
                                    [p \in Players |-> StartMoney], 1, order)))
       \/ \E hands \in { h \in [Players ->
                                  UNION { HandOptions(p) : p \in Players }] :
                           \A p \in Players : h[p] \in HandOptions(p) } :
          \E m \in {StartMoney, LowMoney} :
             Is(begin_phase_2(Scenario(hands, [p \in Players |-> m],
                                       LaterRound, order)))

\* The discards a strategy may name for a plant: none, the plant itself, the
\* cheapest plant of the hand, a plant nobody holds.
DiscardMenu(s, p, plant) ==
    {None, plant, 21}
        \cup (IF s.cards[p] = << >> THEN {} ELSE {MinCost(s.cards[p])})

\* The answers of choose_auction_move the engine is exercised with: every
\* well-formed opening on a plant of the market, and one answer for each way
\* of being rejected.
OpeningMenu(s) ==
    LET p == s.frame.player_idx
        m == s.current_market
    IN
    { Act(ty, None, None, None) :
          ty \in {"auction_pass", "raise", "not_action", "auction_bid"} }
    \cup
    UNION { { Act("auction_open", plant, bid, discard) :
                 bid \in (plant..(plant + MaxRaise)) \cup {s.money[p]},
                 discard \in DiscardMenu(s, p, plant) } : plant \in Range(m) }
    \cup
    { Act("auction_open", None, m[1], None),
      Act("auction_open", m[1], None, None),
      Act("auction_open", m[1], m[1] - 1, None),
      Act("auction_open", m[1], s.money[p] + 1, None) }
    \cup
    { Act("auction_open", c, c, None) : c \in Range(SubSeq(s.future_market, 1, 1)) }

\* The answers of bid_in_auction the engine is exercised with.
BidMenu(s) ==
    LET p == s.frame.player_idx
        min_bid == s.frame.current_bid + 1
    IN
    { Act(ty, None, None, None) :
          ty \in {"auction_bid_pass", "raise", "not_action", "auction_open",
                  "no_method"} }
    \cup
    { Act("auction_bid", s.frame.plant, bid, discard) :
          bid \in {s.money[p]}
                     \cup { b \in min_bid..(min_bid + 1) :
                               b <= s.frame.plant + MaxRaise },
          discard \in DiscardMenu(s, p, s.frame.plant) }
    \cup
    { Act("auction_bid", s.frame.plant, None, None),
      Act("auction_bid", s.frame.plant, min_bid - 1, None),
      Act("auction_bid", s.frame.plant, s.money[p] + 1, None) }

\* The engine asks a player's strategy for an opening (choose_auction_move).
AuctionOpen ==
    /\ pc = "auction_open"
    /\ \E action \in OpeningMenu(S) :
       \E t \in {auction_opening_attempt(Begin(S), action)} : Becomes(t)

\* The engine asks a bidder's strategy for a bid (bid_in_auction).
AuctionBid ==
    /\ pc = "auction_bid"
    /\ \E action \in BidMenu(S) :
       \E t \in {auction_bid_attempt(Begin(S), action)} : Becomes(t)

NextAuction == AuctionOpen \/ AuctionBid

SpecAuction == InitAuction /\ [][NextAuction]_vars


(***************************************************************************)
(* The game: run_game on a freshly constructed engine                      *)
(***************************************************************************)

\* GameEngine(...) on the result of setup: nobody holds a plant, everybody
\* holds the starting money; run_game runs to its first wait.
Init ==
    \E order \in Orders(NumPlayers) :
        Is(begin_round(Scenario([p \in Players |-> << >>],
                                [p \in Players |-> StartMoney], 1, order)))

\* The answers of choose_auction_move the game is played with: a pass, an
\* over-bid, the cheapest plant at its cost or for all the player's money,
\* and the cheapest plant at its cost under the tag of a bid.
GameOpeningMenu(s) ==
    LET p == s.frame.player_idx
        m == s.current_market
    IN
    { Act("auction_pass", None, None, None),
      Act("auction_open", m[1], s.money[p] + 1, None) }
    \cup
    { Act("auction_open", m[1], bid, discard) :
         bid \in {m[1], s.money[p]},
         discard \in IF Len(s.cards[p]) < 3 THEN {None}
                     ELSE {MinCost(s.cards[p])} }
    \cup
    { Act("auction_bid", m[1], m[1], discard) :
         discard \in IF Len(s.cards[p]) < 3 THEN {None}
                     ELSE {MinCost(s.cards[p])} }

\* The answers of bid_in_auction the game is played with: a pass, an over-bid,
\* all the player's money, and all the player's money under the tag of an
\* opening.
GameBidMenu(s) ==
    LET p == s.frame.player_idx IN
    { Act("auction_bid_pass", None, None, None),
      Act("auction_bid", s.frame.plant, s.money[p] + 1, None) }
    \cup
    { Act(ty, s.frame.plant, s.money[p], discard) :
         ty \in {"auction_bid", "auction_open"},
         discard \in IF Len(s.cards[p]) < 3 THEN {None}
                     ELSE {MinCost(s.cards[p])} }

\* The answers of choose_resources the game is played with: action.resources
\* in its iteration order (an unknown resource, an over-sized order, two
\* orders a plant of the market can take), or an answer of the wrong type.
ResourceMenu ==
    { [type |-> "resource_purchase", resources |-> r] :
        r \in { << >>,
                << << "wood", 1 >>, << "gas", 30 >>, << "coal", 2 >>,
                   << "oil", 2 >> >> } }
    \cup { [type |-> "city_build", resources |-> << >>] }

\* The answers of choose_cities_to_build the game is played with.
BuildMenu ==
    { [type |-> "city_build", cities |-> c] :
        c \in { << >>, << "A", "B", "Z", "C" >> } }
    \cup { [type |-> "power_cities", cities |-> << >>] }

\* The answers of choose_cities_to_power the game is played with.
PowerMenu ==
    { [type |-> "power_cities", power_plan |-> n] : n \in {0 - 1, 2} }
    \cup { [type |-> "resource_purchase", power_plan |-> 0] }

GameOpen ==
    /\ pc = "auction_open"
    /\ \E action \in GameOpeningMenu(S) :
       \E t \in {auction_opening_attempt(Begin(S), action)} : Becomes(t)

GameBid ==
    /\ pc = "auction_bid"
    /\ \E action \in GameBidMenu(S) :
       \E t \in {auction_bid_attempt(Begin(S), action)} : Becomes(t)

\* The engine asks a player's strategy for a resource order.
BuyResources ==
    /\ pc = "buy_resources"
    /\ \E action \in ResourceMenu :
       \E t \in {buy_resources_step(Begin(S), action)} : Becomes(t)

\* The engine asks a player's strategy for the cities to build in.
Build ==
    /\ pc = "build"
    /\ \E action \in BuildMenu :
       \E t \in {build_step(Begin(S), action)} : Becomes(t)

\* The engine asks a player's strategy for the cities to power.
Bureaucracy ==
    /\ pc = "bureaucracy"
    /\ \E action \in PowerMenu :
       \E t \in {power_step(Begin(S), action)} : Becomes(t)

Next == GameOpen \/ GameBid \/ BuyResources \/ Build \/ Bureaucracy

Spec == Init /\ [][Next]_vars

\* What the engine did during the last step.
Events == IF "ev" \in DOMAIN last THEN last.ev ELSE << >>

\* C1: for any strategy inputs (over-bids, over-sized resource orders and
\* unaffordable build lists included) every player's money is >= 0 after each
\* of the five phases, in every round.
C1_MoneyNeverNegative ==
    /\ \A p \in Players : money[p] >= 0
    /\ \A i \in DOMAIN Events :
          Events[i].op \in {"round", "phase_4_end", "phase_5_end"} =>
              \A p \in Players : Events[i].money[p] >= 0

\* The second round has been played to its end and money has been spent on a
\* plant, on resources and on a city.
C1_Witness ==
    /\ pc = "done"
    /\ round_num >= 3
    /\ \E p \in Players :
          /\ cards[p] # << >>
          /\ generators[p] # << >>
          /\ \E rt \in ResourceTypes : inventory[p][rt] > 0

\* C2: after every completed plant purchase and at every phase boundary each
\* player holds at most 3 plants; a player holding 3 plants acquires a plant
\* only with an accepted action naming a discard the player owns, and that
\* plant is removed in the same purchase.
C2_AtMostThreePlants ==
    /\ \A p \in Players : Len(cards[p]) <= 3
    /\ \A i \in DOMAIN Events :
          LET e == Events[i] IN
          (e.op = "purchase" /\ Len(e.before.cards[e.winner]) = 3) =>
              /\ e.discard \in Range(e.before.cards[e.winner])
              /\ e.discard \notin Range(e.after.cards[e.winner])
              /\ e.plant \in Range(e.after.cards[e.winner])
              /\ Len(e.after.cards[e.winner]) = 3

\* A player holding three plants has just bought a fourth as a bidder.
C2_Witness ==
    \E i \in DOMAIN Events :
        /\ Events[i].op = "purchase"
        /\ Len(Events[i].before.cards[Events[i].winner]) = 3
        /\ Len(Events[i].accepted) >= 2

\* C3: whenever an auction resolves, the winner is the player who made the
\* highest accepted bid, the winner's money decreases by exactly that bid, the
\* auctioned plant is in the winner's hand and in no market, and no other
\* player's money or hand changes.
C3_AuctionResolution ==
    \A i \in DOMAIN Events :
        LET e == Events[i] IN
        e.op = "purchase" =>
            /\ \E k \in DOMAIN e.accepted : e.accepted[k] = << e.winner, e.bid >>
            /\ \A k \in DOMAIN e.accepted : e.accepted[k][2] <= e.bid
            /\ e.after.money[e.winner] = e.before.money[e.winner] - e.bid
            /\ e.plant \in Range(e.after.cards[e.winner])
            /\ e.plant \notin Range(e.after.current_market)
            /\ e.plant \notin Range(e.after.future_market)
            /\ \A q \in Players \ {e.winner} :
                  /\ e.after.money[q] = e.before.money[q]
                  /\ e.after.cards[q] = e.before.cards[q]

\* C4: a strategy whose opening is rejected on 10 consecutive attempts is
\* consulted exactly 10 times, then the engine raises; no rejected opening is
\* applied: money, hands, markets and deck are as before the first attempt.
C4_OpeningRetries ==
    /\ pc = "auction_open" =>
          /\ frame.consults < MaxRetries
          /\ Holdings(S) = frame.before
    /\ pc = "fatal" =>
          \E i \in DOMAIN Events : Events[i].op = "raise"
    /\ \A i \in DOMAIN Events :
          LET e == Events[i] IN
          (e.op = "raise" /\ e.why = "opening") =>
              /\ e.consults = MaxRetries
              /\ e.after = e.before
              /\ Holdings(S) = e.before

\* The engine has raised after ten rejected openings.
C4_Witness ==
    /\ pc = "fatal"
    /\ \E i \in DOMAIN Events :
          Events[i].op = "raise" /\ Events[i].consults = MaxRetries

C6_RoundOneOnePlantEach ==
    \A i \in DOMAIN Events :
        LET e == Events[i] IN
        /\ e.op = "opening_pass" => ~e.first_round
        /\ (e.op = "phase_2_end" /\ e.first_round /\ ~e.market_empty) =>
              \A p \in Players : Len(cards[p]) = 1


\* C10: when a resource sub-purchase is rejected (no matching plant, over
\* capacity, insufficient supply, or a price above the player's money) the
\* pool's bin occupancy and total_supply and the player's money and inventory
\* are exactly as before the sub-purchase, and the remaining sub-purchases of
\* the action are still processed.
C10_RejectedSubPurchase ==
    \A i \in DOMAIN Events :
        LET e == Events[i] IN
        /\ (e.op = "sub_purchase"
            /\ e.outcome \in {"invalid", "no_supply", "unaffordable"}) =>
              /\ e.pool_after = e.pool_before
              /\ e.money_after = e.money_before
              /\ e.inventory_after = e.inventory_before
        /\ e.op = "order" =>
              \A k \in DOMAIN e.items :
                  /\ i + k \in DOMAIN Events
                  /\ Events[i + k].op = "sub_purchase"
                  /\ Events[i + k].resource = e.items[k][1]

(***************************************************************************)
(* The Buy Resources phase on its own: phase_3_buy_resources entered with   *)
(* hands the auctions can leave behind (game_engine.py lines 762-840)       *)
(***************************************************************************)

\* The hands at the start of the phase: player 0 holds the oil&gas plant 5
\* alone, with the oil&gas plant 12, or the coal plant 4; the others hold
\* nothing, the oil plant 7 or the uranium plant 11.
ResourceHands(p) ==
    IF p = 0 THEN { << 5 >>, << 5, 12 >>, << 4 >> }
    ELSE { << >>, << 7 >>, << 11 >> }

InitResources ==
    \E order \in Orders(NumPlayers) :
    \E hands \in { h \in [Players -> UNION { ResourceHands(p) : p \in Players }] :
                     \A p \in Players : h[p] \in ResourceHands(p) } :
       Is(begin_phase_3([Scenario(hands, [p \in Players |-> StartMoney],
                                  LaterRound, order)
                           EXCEPT !.phase = "buy_resources"]))

\* The answers of choose_resources in this phase: no order, one resource in
\* a small, a full or an over-sized amount, oil followed by gas, or an answer
\* of the wrong type.
OrderMenu ==
    { [type |-> "resource_purchase", resources |-> r] :
        r \in { << >> }
              \cup { << << rt, n >> >> : rt \in ResourceTypes, n \in {1, 4, 5} }
              \cup { << << "oil", a >>, << "gas", b >> >> : a, b \in {2, 4} } }
    \cup { [type |-> "city_build", resources |-> << >>] }

\* The engine asks the next player of the reversed order for a resource order.
ResourcesBuy ==
    /\ pc = "buy_resources"
    /\ \E action \in OrderMenu :
       \E t \in {buy_resources_step(Begin(S), action)} : Becomes(t)

NextResources == ResourcesBuy

SpecResources == InitResources /\ [][NextResources]_vars

\* The storage a hand gives for one resource type: twice the resource_cost of
\* every plant that can burn it.
StorageFor(hand, rt) ==
    SeqSum([i \in DOMAIN hand |->
              IF \/ CardTable[hand[i]].resource = rt
                 \/ (CardTable[hand[i]].resource = "oil&gas"
                     /\ rt \in {"oil", "gas"})
              THEN 2 * CardTable[hand[i]].resource_cost ELSE 0])

\* C11: after every Buy Resources phase each player's inventory of each
\* resource type is at most twice the summed resource_cost of the player's
\* plants that can burn it, and the storage of an oil&gas plant is shared: a
\* player whose only plant is an oil&gas plant of resource_cost r holds at most
\* 2r of oil and gas together.
C11_StorageCapacity ==
    (\E i \in DOMAIN Events : Events[i].op = "phase_3_end") =>
        \A p \in Players :
           /\ \A rt \in ResourceTypes :
                 inventory[p][rt] <= StorageFor(cards[p], rt)
           /\ (Len(cards[p]) = 1 /\ CardTable[cards[p][1]].resource = "oil&gas")
                 => inventory[p]["oil"] + inventory[p]["gas"]
                       <= 2 * CardTable[cards[p][1]].resource_cost

(***************************************************************************)
(* The power plant market on its own: every method that changes the        *)
(* markets or the deck, called on the markets a game passes through        *)
(* (game_engine.py lines 304-312, 642-760, 979-999, 1050-1093, 1205-1235)   *)
(***************************************************************************)

\* City names off the board, as the tests use to give a player a city count.
OffBoard ==
    << "city0", "city1", "city2", "city3", "city4", "city5", "city6", "city7",
       "city8", "city9", "city10", "city11", "city12", "city13", "city14",
       "city15", "city16", "city17" >>

\* The city counts player 0 starts the market scenarios with: none, or the
\* count that triggers Step 2.
MarketCityCounts == {0, Step2Threshold(NumPlayers)}

\* The most plants left in the deck when the market scenarios start, and the
\* rounds they run for.
DeckLeft == 3
MarketRounds == 2

\* The market late in a game: 4 + 4 plants, no plant or DeckLeft plants in
\* the deck (in ascending or in descending order) and the Step 3 card at the
\* bottom.
InitMarket ==
    \E n \in MarketCityCounts : \E flip \in BOOLEAN : \E k \in {0, DeckLeft} :
       LET g == Scenario([p \in Players |-> << >>],
                         [p \in Players |-> StartMoney], LaterRound,
                         IdentityOrder)
           plants == SubSeq(g.deck, 1, k)
       IN  Is([g EXCEPT !.generators[0] = SubSeq(OffBoard, 1, n),
                        !.deck = Append(IF flip THEN Reverse(plants)
                                        ELSE plants, StageThree)])

\* What a market step did, for the log.
MarketLog(s, what) == [s EXCEPT !.last = [op |-> what]]

\* The first player of the order, with room in the hand and the money, buys
\* a plant of the current market at its cost: execute_plant_purchase, which
\* ends in the refill.
MarketBuy ==
    \E p \in {player_order[1]} : \E i \in DOMAIN current_market :
       /\ Len(cards[p]) < 3
       /\ money[p] >= current_market[i]
       /\ Becomes(MarketLog(execute_plant_purchase(S, p, current_market[i],
                                                   current_market[i], None),
                            "refill"))

\* Nobody bought in a later round (lines 304-312): the cheapest plant leaves
\* the game and the market is refilled.
MarketNobodyBought ==
    /\ current_market # << >>
    /\ Becomes(MarketLog(update_market_after_purchase(
                   [S EXCEPT !.current_market =
                        Remove(current_market, MinCost(current_market))]),
               "refill"))

\* After a build: remove_plants_below_city_count.
MarketObsolete ==
    Becomes(MarketLog(remove_plants_below_city_count(S), "obsolete"))

\* The end of a round: part 3 of the bureaucracy phase, then
\* check_step_transitions and the round counter (run_game lines 191-205).
MarketRoundEnd ==
    /\ round_num < LaterRound + MarketRounds
    /\ Becomes(MarketLog([check_step_transitions(rotate_market(S))
                             EXCEPT !.round_num = @ + 1], "round_end"))

NextMarket ==
    MarketBuy \/ MarketNobodyBought \/ MarketObsolete \/ MarketRoundEnd

SpecMarket == InitMarket /\ [][NextMarket]_vars

\* The shape a refill must leave the markets in.
RefillShape(t) ==
    IF t.step = 3
    THEN Len(t.current_market) <= 6 /\ t.future_market = << >>
    ELSE /\ \/ Len(t.current_market) = 4
            \/ Len(t.current_market) < 4 /\ t.deck = << >>
         /\ Len(t.future_market) <= 5

\* C12: at the end of every market refill, in Step 1 or 2 the current market
\* holds exactly 4 plants (fewer only when the deck is exhausted) and the
\* future market at most 5; in Step 3 the current market holds at most 6 and
\* the future market is empty.  Stated of the refill that has just run and of
\* the refill after any removal from the current market.
C12_RefillShape ==
    /\ last.op = "refill" => RefillShape(S)
    /\ RefillShape(update_market_after_purchase(S))
    /\ \A i \in DOMAIN current_market :
          RefillShape(update_market_after_purchase(
              [S EXCEPT !.current_market = Remove(@, current_market[i])]))

\* A refill in Step 3 has left six plants in the current market.
C12_Witness ==
    /\ last.op = "refill"
    /\ step = 3
    /\ Len(current_market) = 6

\* A refill in Step 1 or 2 has left fewer than four plants: the deck is out.
C12_WitnessExhausted ==
    /\ last.op = "refill"
    /\ step \in {1, 2}
    /\ Len(current_market) < 4

\* C13: the Step 3 card is never returned by draw_next_plant and is never in
\* the current market, the future market or a hand; it is in the deck until
\* the draw that pops it, which sets step_3_triggered, and step_3_triggered is
\* never reset.
C13_MarkerNeverDealt ==
    /\ [](/\ draw_next_plant(S).plant # StageThree
          /\ StageThree \notin Range(current_market) \cup Range(future_market)
          /\ \A p \in Players : StageThree \notin Range(cards[p])
          /\ step_3_triggered <=> StageThree \notin Range(deck))
    /\ [][step_3_triggered => step_3_triggered']_vars

\* A refill has just popped the Step 3 card and dealt the plant under it.
C13_Witness ==
    /\ last.op = "refill"
    /\ step_3_triggered
    /\ StageThree \notin Range(deck)
    /\ deck # << >>

(***************************************************************************)
(* The standings: phase_1_determine_order, determine_winner and             *)
(* calculate_connection_cost applied to the positions players can be in     *)
(* (game_engine.py lines 228-238, 940-977, 1116-1143, 1245-1262)            *)
(***************************************************************************)

\* The fixture with one more connection, A -- C at 15: dearer than the way
\* through B (5 + 7).
detour_board_graph ==
    [a \in Cities |->
       [b \in DOMAIN simple_board_graph[a]
                \cup (IF a = "A" THEN {"C"} ELSE IF a = "C" THEN {"A"} ELSE {})
          |-> IF {a, b} = {"A", "C"} THEN 15 ELSE simple_board_graph[a][b]]]

\* The cities, plants and coal a player holds in the standings.
StandingCities == { << >>, << "A" >>, << "C" >>, << "A", "B" >> }
StandingHands(p) ==
    IF p = 0 THEN { << >>, << 13 >>, << 4, 15 >> }
    ELSE { << >>, << 10 >>, << 6, 8 >> }
StandingCoal == {0, 2}

InitStandings ==
    \E order \in Orders(NumPlayers) :
    \E board \in {simple_board_graph, detour_board_graph} :
    \E gens \in [Players -> StandingCities] :
    \E hands \in { h \in [Players -> UNION { StandingHands(p) : p \in Players }] :
                     \A p \in Players : h[p] \in StandingHands(p) } :
    \E coal \in [Players -> StandingCoal] :
    \E cash \in [Players -> {StartMoney, LowMoney}] :
       LET g == Scenario(hands, cash, LaterRound, order)
       IN  Is([g EXCEPT !.generators = gens,
                        !.board_graph = board,
                        !.inventory =
                            [p \in Players |->
                               [g.inventory[p] EXCEPT !["coal"] = coal[p]]],
                        !.phase = "determine_order"])

\* The engine determines the player order.
DetermineOrder ==
    /\ pc = "start"
    /\ Becomes(Log([phase_1_determine_order(Begin(S)) EXCEPT !.pc = "done"],
                   [op |-> "determine_order", before |-> player_order]))

\* The engine determines the winner.
DetermineWinner ==
    /\ pc = "start"
    /\ Becomes(Log([Begin(S) EXCEPT !.pc = "done"],
                   [op |-> "determine_winner",
                    winner_idx |-> determine_winner(S)]))

\* The engine prices the connection of a city for a player.
ConnectionCost ==
    /\ pc = "start"
    /\ \E p \in Players : \E target_city \in Cities :
          Becomes(Log([Begin(S) EXCEPT !.pc = "done"],
                      [op |-> "connection_cost", player |-> p,
                       city |-> target_city,
                       cost |-> calculate_connection_cost(S, p, target_city)]))

NextStandings == DetermineOrder \/ DetermineWinner \/ ConnectionCost

SpecStandings == InitStandings /\ [][NextStandings]_vars

\* A player's sort key: the city count, then the cost of the dearest plant
\* (0 without plants).
CityCount(p) == Len(generators[p])
LargestPlant(p) == IF cards[p] = << >> THEN 0 ELSE SetMax(Range(cards[p]))
PositionIn(seq, x) == CHOOSE i \in DOMAIN seq : seq[i] = x

\* C14: phase_1_determine_order leaves in player_order a permutation of the
\* previous order, sorted by city count descending, then by the cost of the
\* dearest plant descending; players that tie on both keep their previous
\* relative order.
C14_OrderSorted ==
    \A i \in DOMAIN Events :
       Events[i].op = "determine_order" =>
          LET old == Events[i].before
              new == player_order
          IN  /\ Len(new) = Len(old)
              /\ Range(new) = Range(old)
              /\ Cardinality(Range(new)) = Len(new)
              /\ \A a, b \in DOMAIN new :
                    a < b =>
                       /\ CityCount(new[a]) >= CityCount(new[b])
                       /\ CityCount(new[a]) = CityCount(new[b])
                             => LargestPlant(new[a]) >= LargestPlant(new[b])
                       /\ (/\ CityCount(new[a]) = CityCount(new[b])
                           /\ LargestPlant(new[a]) = LargestPlant(new[b]))
                             => PositionIn(old, new[a]) < PositionIn(old, new[b])

\* The order has changed on the tie-break: equal city counts, the dearer
\* plant first.
C14_Witness ==
    \E i \in DOMAIN Events :
       /\ Events[i].op = "determine_order"
       /\ Events[i].before # player_order
       /\ CityCount(player_order[1]) = CityCount(player_order[2])
       /\ CityCount(player_order[1]) > 0

WaysFrom(c, target_city) ==
    IF c \notin DOMAIN board_graph \/ target_city \notin DOMAIN board_graph
    THEN {}
    ELSE { board_graph[c][target_city] : x \in {target_city}
                                              \cap DOMAIN board_graph[c] }
         \cup { board_graph[c][x] + board_graph[x][target_city] :
                  x \in { y \in DOMAIN board_graph[c] \cap DOMAIN board_graph :
                            target_city \in DOMAIN board_graph[y] } }

\* C17: calculate_connection_cost is 0 for a player without cities; otherwise
\* the minimum, over the player's cities, of the direct connection (if there
\* is one) and the cheapest way through one city between; and 50 when the
\* target is not within two connections of any of the player's cities.
C17_ConnectionCost ==
    \A i \in DOMAIN Events :
       Events[i].op = "connection_cost" =>
          LET owned == Range(generators[Events[i].player])
              ways == UNION { WaysFrom(c, Events[i].city) : c \in owned }
          IN  Events[i].cost = IF owned = {} THEN 0
                               ELSE IF ways = {} THEN NoPathCost
                               ELSE SetMin(ways)

(***************************************************************************)
(* The last round of a game: run_game entered with the city counts and the *)
(* deck of a late round (game_engine.py lines 145-226, 1205-1243)           *)
(***************************************************************************)

\* n cities of a player late in the game: city A of the board and n - 1
\* cities off the board.
LateCities(n) ==
    IF n = 0 THEN << >> ELSE << "A" >> \o SubSeq(OffBoard, 1, n - 1)

\* The city counts player 0 enters the last round with: none, one below the
\* Step 2 threshold, one below the end of the game.
LateCityCounts == {0, Step2Threshold(NumPlayers) - 1, EndGameCities - 1}

\* The last round starts: empty hands, the start money, player 0 with the
\* cities above, and the deck as the scenario deals it or DeckLeft plants
\* under the Step 3 card.
InitLate ==
    \E order \in Orders(NumPlayers) : \E n \in LateCityCounts :
    \E top \in BOOLEAN :
       LET g == Scenario([p \in Players |-> << >>],
                         [p \in Players |-> StartMoney], MaxRounds, order)
       IN  Is(begin_round(
                [g EXCEPT !.generators[0] = LateCities(n),
                          !.city_occupancy["A"] =
                              IF n = 0 THEN << >> ELSE << 0 >>,
                          !.deck = IF top
                                   THEN << StageThree >>
                                           \o SubSeq(g.deck, 1, DeckLeft)
                                   ELSE g.deck]))

SpecLate == InitLate /\ [][Next]_vars

\* C15: once a player has 18 or more cities at the end of a Build phase,
\* game_over is true and the game is finished: the winner is determined right
\* after the Build phase, no Bureaucracy phase (payment, resupply, market
\* rotation, step transition) and no later phase runs.
C15_EndsAfterBuild ==
    /\ [](\A i \in DOMAIN Events :
             (/\ Events[i].op = "phase_4_end"
              /\ \E p \in Players : Len(generators[p]) >= EndGameCities)
             => /\ game_over
                /\ pc = "done"
                /\ Len(Events) = i + 1
                /\ Events[i + 1].op = "game_over"
                /\ money = Events[i].money)
    /\ [][pc # "done" /\ ~game_over]_vars

\* The Build phase has ended with 18 cities for a player who built one.
C15_Witness ==
    /\ \E i \in DOMAIN Events : Events[i].op = "phase_4_end"
    /\ \E i \in DOMAIN Events : Events[i].op = "built"
    /\ \E p \in Players : Len(generators[p]) >= EndGameCities
    /\ game_over

\* C20: step is always 1, 2 or 3 and never decreases; it leaves 1 only when
\* some player's city count has reached the Step 2 threshold of the player
\* count; it becomes 3 only when the Step 3 card has been drawn
\* (step_3_triggered is true).
C20_StepTransitions ==
    /\ [](step \in {1, 2, 3})
    /\ [][/\ step' >= step
          /\ (step = 1 /\ step' # 1)
                => \E p \in Players :
                      Len(generators'[p]) >= Step2Threshold(NumPlayers)
          /\ (step # 3 /\ step' = 3) => step_3_triggered']_vars

\* The round has ended in Step 3: a player built up to the Step 2 threshold
\* and the Step 3 card was drawn in the same round.
C20_Witness ==
    /\ step = 3
    /\ \E i \in DOMAIN Events : Events[i].op = "phase_5_end"
    /\ \E p \in Players : Len(generators[p]) >= Step2Threshold(NumPlayers)
    /\ \A p \in Players : Len(generators[p]) < EndGameCities

\* The round has ended in Step 2.
C20_WitnessStepTwo ==
    /\ step = 2
    /\ \E i \in DOMAIN Events : Events[i].op = "phase_5_end"

\* C18: an action whose tag is not the one the decision point expects is
\* never applied: an opening is applied only under AUCTION_OPEN (or passed
\* under AUCTION_PASS), a bid only under AUCTION_BID, a resource order only
\* under RESOURCE_PURCHASE, a build list only under CITY_BUILD, a power plan
\* only under POWER_CITIES; and the step that receives a mismatching action
\* changes no money, hand, inventory, city occupancy, market, deck or pool.
C18_WrongTagNotApplied ==
    /\ [](\A i \in DOMAIN Events :
             LET e == Events[i] IN
             /\ e.op = "opening" => e.action.type = "auction_open"
             /\ e.op = "bid" => e.tag = "auction_bid"
             /\ e.op = "order" => e.tag = "resource_purchase"
             /\ e.op = "build_list" => e.tag = "city_build"
             /\ e.op = "powered" => e.tag = "power_cities")
    /\ [][(\E i \in DOMAIN last'.ev :
              \/ /\ last'.ev[i].op \in {"opening_rejected", "bid_rejected"}
                 /\ last'.ev[i].wrong_tag
              \/ /\ last'.ev[i].op = "raise"
                 /\ last'.ev[i].why \in {"choose_resources",
                                         "choose_cities_to_build",
                                         "choose_cities_to_power"})
           => UNCHANGED << money, cards, inventory, generators,
                           city_occupancy, current_market, future_market,
                           deck, resources >>]_vars

\* A bid came under the tag of an opening, from a player who could have paid
\* it, and was rejected.
C18_Witness ==
    \E i \in DOMAIN Events :
       /\ Events[i].op = "bid_rejected"
       /\ Events[i].wrong_tag
       /\ money[Events[i].player] > frame.current_bid

\* A build list came under the tag of a power plan and the phase was aborted.
C18_WitnessAbort ==
    \E i \in DOMAIN Events :
       /\ Events[i].op = "raise"
       /\ Events[i].why = "choose_cities_to_build"

\* The number of a phase, by the value of game_state.phase while it runs and
\* by the log entry that marks its end.
PhaseNo(ph) ==
    CASE ph = "determine_order" -> 1
      [] ph = "auction" -> 2
      [] ph = "buy_resources" -> 3
      [] ph = "build" -> 4
      [] ph = "bureaucracy" -> 5

PhaseEnded(e) ==
    CASE e.op = "round" -> 1
      [] e.op = "phase_2_end" -> 2
      [] e.op = "phase_3_end" -> 3
      [] e.op = "phase_4_end" -> 4
      [] e.op = "phase_5_end" -> 5
      [] OTHER -> 0

\* The phases that ended during a step, in order.
PhasesEnded(ev) ==
    SelectSeq([i \in DOMAIN ev |-> PhaseEnded(ev[i])], LAMBDA n : n > 0)

\* C19: the phases run in the order Determine Order, Auction, Buy Resources,
\* Build, Bureaucracy in every round, none skipped and none repeated; the game
\* ends after a Build phase (a player has 18 cities) or after a Bureaucracy
\* phase only; round_num grows by exactly 1 when a round is completed and
\* does not change otherwise.  The phase that ends first in a step is the one
\* that was running; the phases that ask every player (Buy Resources, Build,
\* Bureaucracy) end only in a step of their own.
C19_PhaseOrder ==
    [][LET ended == PhasesEnded(last'.ev) IN
       /\ \A k \in DOMAIN ended :
             /\ k = 1 => ended[k] = PhaseNo(phase)
             /\ k > 1 => ended[k] = (ended[k - 1] % 5) + 1
             /\ ended[k] \in {3, 4, 5} => k = 1
       /\ pc' \notin {"done", "fatal"} =>
             PhaseNo(phase') = IF ended = << >> THEN PhaseNo(phase)
                               ELSE (ended[Len(ended)] % 5) + 1
       /\ pc' = "done" =>
             /\ ended # << >>
             /\ ended[Len(ended)] \in {4, 5}
             /\ ended[Len(ended)] = 4 =>
                   \E p \in Players : Len(generators'[p]) >= EndGameCities
       /\ round_num' = round_num + (IF 5 \in Range(ended) THEN 1 ELSE 0)]_vars

\* A round has been completed and the auction of the next one has started.
C19_Witness ==
    /\ round_num = 2
    /\ phase = "auction"
    /\ PhasesEnded(Events) = << 5, 1 >>

\* C21: within one Auction phase a player who has passed the own opening turn
\* or has bought a plant is asked for nothing more, neither an opening nor a
\* bid; so every plant is bought by a player who had not bought in the phase.
\* players_who_passed and players_who_bought record exactly those players:
\* they take the player of every opening pass and the winner of every
\* purchase, and lose nobody while the phase runs.
C21_NoFurtherRequest ==
    /\ [](pc \in {"auction_open", "auction_bid"} =>
             frame.player_idx \notin frame.players_who_bought
                                        \cup frame.players_who_passed)
    /\ [][/\ \A i \in DOMAIN last'.ev :
                /\ last'.ev[i].op = "purchase" =>
                      last'.ev[i].winner \notin frame.players_who_bought
                /\ pc' \in {"auction_open", "auction_bid"} =>
                      /\ last'.ev[i].op = "purchase" =>
                            last'.ev[i].winner \in frame'.players_who_bought
                      /\ last'.ev[i].op = "opening_pass" =>
                            last'.ev[i].player \in frame'.players_who_passed
          /\ pc' \in {"auction_open", "auction_bid"} =>
                /\ frame.players_who_bought \subseteq frame'.players_who_bought
                /\ frame.players_who_passed \subseteq frame'.players_who_passed
         ]_vars

\* A player is asked for an opening after another player bought a plant in
\* the same phase.
C21_Witness ==
    /\ pc = "auction_open"
    /\ frame.players_who_bought # {}
    /\ \E i \in DOMAIN Events : Events[i].op = "purchase"

\* C22: in every auction the plant is in the current market when the auction
\* opens, the opening bid is at least the plant's cost and at most the
\* opener's money, and every later accepted bid is at least the current bid
\* plus 1 and at most the bidder's money at the time of the bid.  The opening
\* and the bid are the answer of the player the engine was waiting for, so the
\* market, the current bid and the money are those before the step.
C22_BidsInRange ==
    [][\A i \in DOMAIN last'.ev :
          LET e == last'.ev[i] IN
          /\ e.op = "opening" =>
                /\ pc = "auction_open"
                /\ e.player = frame.player_idx
                /\ e.action.plant \in Range(current_market)
                /\ e.action.bid >= e.action.plant
                /\ e.action.bid <= money[e.player]
          /\ e.op = "bid" =>
                /\ pc = "auction_bid"
                /\ e.player = frame.player_idx
                /\ frame.current_bid = auction_current_bid
                /\ e.bid >= auction_current_bid + 1
                /\ e.bid <= money[e.player]
      ]_vars

\* A bid of exactly the current bid plus 1, below the bidder's money, has been
\* accepted from a player with less than the start money.
C22_Witness ==
    \E i \in DOMAIN Events :
       /\ Events[i].op = "bid"
       /\ Events[i].bid = Events[i].min_bid
       /\ Events[i].bid < Events[i].money
       /\ Events[i].money < StartMoney

\* The Auction phase when every strategy call returns: the engine always gets
\* the answer it waits for.  The phase starts in round 1 with the start money
\* or in a later round with little money.
InitAuctionShort ==
    \E order \in Orders(NumPlayers) :
       \/ Is(begin_phase_2(Scenario([p \in Players |-> << >>],
                                    [p \in Players |-> StartMoney], 1, order)))
       \/ Is(begin_phase_2(Scenario([p \in Players |-> << >>],
                                    [p \in Players |-> LowMoney],
                                    LaterRound, order)))

\* One answer of choose_auction_move for each thing the engine can do with
\* it: a pass, an answer that is rejected, an opening at the plant's cost or
\* with all the player's money.
ShortOpeningMenu(s) ==
    LET p == s.frame.player_idx
    IN  { Act(ty, None, None, None) : ty \in {"auction_pass", "raise"} }
        \cup UNION { { Act("auction_open", plant, bid, None) :
                          bid \in {plant, s.money[p]} } :
                        plant \in Range(s.current_market) }

\* One answer of bid_in_auction for each thing the engine can do with it: a
\* pass, an answer that raises, a bid that does not raise, the smallest raise,
\* all the money.
ShortBidMenu(s) ==
    LET p == s.frame.player_idx
        min_bid == s.frame.current_bid + 1
    IN  { Act(ty, None, None, None) : ty \in {"auction_bid_pass", "raise"} }
        \cup { Act("auction_bid", s.frame.plant, bid, None) :
                  bid \in {s.money[p], min_bid - 1}
                             \cup { b \in {min_bid} :
                                       b <= s.frame.plant + MaxRaise + 1 } }

ShortAuctionOpen ==
    /\ pc = "auction_open"
    /\ \E action \in ShortOpeningMenu(S) :
       \E t \in {auction_opening_attempt(Begin(S), action)} : Becomes(t)

ShortAuctionBid ==
    /\ pc = "auction_bid"
    /\ \E action \in ShortBidMenu(S) :
       \E t \in {auction_bid_attempt(Begin(S), action)} : Becomes(t)

NextAuctionShort == ShortAuctionOpen \/ ShortAuctionBid

\* Every strategy call returns: weak fairness of the engine's step,
\* WF_vars(NextAuctionShort), written with what ENABLED <<NextAuctionShort>>_vars
\* is.  The engine waits for an answer in every state of the phase and in no
\* other state, and every answer changes the state.
AnswersArrive ==
    \/ []<>(~(pc \in {"auction_open", "auction_bid"}))
    \/ []<><<NextAuctionShort>>_vars

FairSpecAuction ==
    InitAuctionShort /\ [][NextAuctionShort]_vars /\ AnswersArrive

InAuctionPhase == pc \in {"auction_open", "auction_bid"}

\* What is left of the phase, as one number: the players who have neither
\* bought nor passed; then, while a player is asked for an opening, the
\* attempts left; then, in an auction, the room between the current bid and
\* the most money a player has, the active bidders and the attempts left.
AttemptsLeft == MaxRetries - frame.attempt
AuctionLeft ==
    ((SetMax({ money[p] : p \in Players }) - frame.current_bid)
         * (NumPlayers + 1)
       + Len(frame.active_bidders)) * (MaxRetries + 1) + AttemptsLeft
AuctionMost == ((StartMoney + 1) * (NumPlayers + 1)) * (MaxRetries + 1)
PhaseLeft ==
    (NumPlayers - Cardinality(frame.players_who_bought
                                 \cup frame.players_who_passed))
        * (2 * AuctionMost)
      + (IF pc = "auction_open" THEN AuctionMost + AttemptsLeft
         ELSE AuctionLeft)

\* C23: every auction and every Auction phase terminates whatever the
\* strategies answer, as long as every strategy call returns.  Every answer
\* uses up a part of what is left of the phase (an attempt, an active bidder,
\* the room above the current bid, a player who has neither bought nor
\* passed); the bidding ends when a round passes without a bid or no active
\* bidder remains; the phase ends when every player passed the opening turn
\* or bought, or the market is empty.
C23_AuctionTerminates ==
    /\ [](InAuctionPhase => PhaseLeft > 0 /\ AttemptsLeft > 0)
    /\ [][(InAuctionPhase /\ InAuctionPhase') => PhaseLeft' < PhaseLeft]_vars
    /\ [](\A i \in DOMAIN Events :
             Events[i].op = "phase_2_end" =>
                \/ Events[i].bought \cup Events[i].passed = Players
                \/ Events[i].market_empty)
    /\ [](pc = "auction_bid" =>
             /\ auction_active
             /\ frame.active_bidders # << >>
             /\ frame.player_idx \in Range(frame.active_bidders))
    /\ (pc = "auction_bid") ~> (pc # "auction_bid")
    /\ <>(~InAuctionPhase)

\* An auction has ended after a second round of bidding: two bids were
\* accepted after the opening.
C23_Witness ==
    \E i \in DOMAIN Events :
       /\ Events[i].op = "purchase"
       /\ Len(Events[i].accepted) >= 3

\* C24: whenever no auction is in progress (after each auction has resolved
\* and at every phase boundary) the auction sub-state is cleared:
\* auction_active is false, auction_plant, auction_current_bid,
\* auction_current_winner and auction_starter are None and
\* auction_active_bidders is empty.
C24_AuctionStateCleared ==
    (pc # "auction_bid") =>
        /\ ~auction_active
        /\ auction_plant = None
        /\ auction_current_bid = None
        /\ auction_current_winner = None
        /\ auction_starter = None
        /\ auction_active_bidders = << >>

\* C25: during an auction the engine never requests a bid from the player who
\* currently holds the highest bid, so no accepted bid is made by the player
\* who is already the current leader.
C25_LeaderNotAsked ==
    /\ [](pc = "auction_bid" =>
             /\ frame.player_idx # frame.current_winner
             /\ frame.player_idx # auction_current_winner)
    /\ [][\A i \in DOMAIN last'.ev :
             last'.ev[i].op = "bid" =>
                last'.ev[i].player # frame.current_winner]_vars

\* C26: on the Step 1 to Step 2 transition the cheapest plant of the current
\* market is removed and nothing replaces it: no card is drawn, the deck is
\* unchanged, and the two markets together hold exactly one plant fewer than
\* before the transition.
C26_StepTwoNoReplacement ==
    [][(last'.op = "round_end" /\ step = 1 /\ step' = 2) =>
          LET before == rotate_market(S)
          IN  before.current_market # << >> =>
                 /\ MinCost(before.current_market)
                       \notin Range(current_market') \cup Range(future_market')
                 /\ deck' = before.deck
                 /\ Len(current_market') + Len(future_market') =
                       Len(before.current_market)
                           + Len(before.future_market) - 1]_vars

\* C27: step changes from 1 to 2 as soon as a build gives a player the
\* threshold number of generators for the player count, so that every build
\* processed after it, later builds of the same Build phase included, is
\* validated against the Step-2 slot limit.
C27_StepTwoAtOnce ==
    [][(/\ \A p \in Players :
              Len(generators[p]) < Step2Threshold(NumPlayers)
        /\ \E i \in DOMAIN last'.ev : last'.ev[i].op = "built"
        /\ \E p \in Players :
              Len(generators'[p]) >= Step2Threshold(NumPlayers))
          => step' >= 2]_vars


(***************************************************************************)
(* The Build phase on its own: phase_4_build called on a game state set up *)
(* as the tests set it up (generators and occupancy assigned directly).    *)
(***************************************************************************)

BoardCities == << "A", "B", "C", "D", "E" >>

\* Occupancy lists for cities A and B, the other cities empty.
Occupied(a, b) ==
    [c \in Cities |-> IF c = "A" THEN a ELSE IF c = "B" THEN b ELSE << >>]

\* The occupancies a Build phase starts from in a step: nothing built, one
\* city each, and from Step 2 on shared cities.
BuildOccupancies(st) ==
    { Occupied(<< >>, << >>), Occupied(<< 0 >>, << 1 >>) }
        \cup (IF st >= 2
              THEN { Occupied(<< 0, 1 >>, << 1 >>),
                     Occupied(<< 1, 0 >>, << 0, 1 >>) }
              ELSE {})

\* The cities of the board a player is listed in, as the player's generators.
OwnedIn(occ, p) == SelectSeq(BoardCities, LAMBDA c : p \in Range(occ[c]))

\* A Build phase of a later round: the markets of the scenario (in Step 3 the
\* six cheapest plants in one market), the start money, the given occupancy.
BuildScene(order, st, occ) ==
    LET g == Scenario([p \in Players |-> << >>],
                      [p \in Players |-> StartMoney], LaterRound, order)
        all_plants == g.current_market \o g.future_market
    IN  [g EXCEPT !.step = st, !.step_3_triggered = (st = 3),
                  !.current_market = IF st = 3 THEN SubSeq(all_plants, 1, 6)
                                     ELSE @,
                  !.future_market = IF st = 3 THEN << >> ELSE @,
                  !.deck = IF st = 3
                           THEN SelectSeq(@, LAMBDA c : c # StageThree)
                           ELSE @,
                  !.city_occupancy = occ,
                  !.generators = [p \in Players |-> OwnedIn(occ, p)],
                  !.phase = "build"]

LateBuildCities == 11

\* A Build phase late in the game, in Step 3: player 0 has LateBuildCities
\* cities (city A and cities off the board), every plant of the market costs
\* more than that, and the deck still holds a plant that costs less than the
\* cheapest plant of the market.
LateBuildScene(order) ==
    [BuildScene(order, 3, Occupied(<< 0 >>, << 1 >>)) EXCEPT
        !.generators[0] = LateCities(LateBuildCities),
        !.current_market = << 12, 13, 14, 15, 16, 21 >>,
        !.deck = << 11 >>]

\* The same Build phase after an Auction phase that spent the money and dealt
\* a plant of cost LateBuildCities into the market.
PoorBuildScene(order) ==
    [LateBuildScene(order) EXCEPT
        !.money = [p \in Players |-> LowMoney],
        !.current_market = << 11, 12, 13, 14, 15, 16 >>,
        !.deck = << 21 >>]

InitBuild ==
    \E order \in Orders(NumPlayers) :
       \/ \E st \in 1..3 : \E occ \in BuildOccupancies(st) :
             Is(begin_phase_4(BuildScene(order, st, occ)))
       \/ Is(begin_phase_4(LateBuildScene(order)))
       \/ Is(begin_phase_4(PoorBuildScene(order)))

\* The answers of choose_cities_to_build the phase is exercised with: city
\* lists with free, occupied, owned, repeated and unknown cities, and an
\* answer of another type.
CityMenu ==
    { [type |-> "city_build", cities |-> c] :
        c \in { << >>, << "B" >>, << "A", "C" >>, << "C", "Z", "D" >>,
                << "A", "B", "C", "B" >> } }
    \cup { [type |-> "power_cities", cities |-> << >>] }

\* The engine asks a player's strategy for the cities to build in.
BuildCities ==
    /\ pc = "build"
    /\ \E action \in CityMenu :
       \E t \in {build_step(Begin(S), action)} : Becomes(t)

NextBuild == BuildCities

SpecBuild == InitBuild /\ [][NextBuild]_vars

\* C28: after every build processed in the Build phase no plant of the current
\* market has a cost at or below the largest number of generators a player
\* has.
C28_NoObsoletePlant ==
    [][(\E i \in DOMAIN last'.ev : last'.ev[i].op = "built") =>
          \A c \in Range(current_market') :
             c > SetMax({ Len(generators'[p]) : p \in Players })]_vars

\* The plants of the game in a state: in a market, in a hand or in the deck.
PlantsIn(cm, fm, dk, hands) ==
    (Range(cm) \cup Range(fm) \cup Range(dk)
        \cup UNION { Range(hands[p]) : p \in Players }) \ {StageThree}

\* The plants discarded in the purchases of a step.
Discarded(ev) ==
    { ev[i].discard : i \in { j \in DOMAIN ev : ev[j].op = "purchase" } }

\* C29: in a round other than round 1, when the Auction phase ends with no
\* plant bought, the plant that was cheapest in the current market is removed
\* from the game (it is in no market, hand or deck afterwards, every other
\* plant still is) and the market is refilled; in round 1, or when a plant was
\* bought, no plant is removed this way.
C29_CheapestRemoved ==
    [][\A i \in DOMAIN last'.ev :
          last'.ev[i].op = "phase_2_end" =>
             LET e == last'.ev[i]
                 before == PlantsIn(current_market, future_market, deck, cards)
                 after == PlantsIn(current_market', future_market', deck',
                                   cards')
             IN  IF ~e.first_round /\ e.bought = {} /\ ~e.market_empty
                 THEN /\ after = before \ {MinCost(current_market)}
                      /\ MinCost(current_market) \in before
                      /\ RefillShape(S')
                      /\ Len(current_market') + Len(future_market')
                            >= Len(current_market) + Len(future_market)
                            \/ deck' = << >>
                 ELSE before \ after \subseteq Discarded(last'.ev)]_vars

\* A later round's Auction phase has ended with no plant bought and a plant
\* in the market.
C29_Witness ==
    \E i \in DOMAIN Events :
       /\ Events[i].op = "phase_2_end"
       /\ ~Events[i].first_round
       /\ Events[i].bought = {}
       /\ ~Events[i].market_empty
       /\ deck # << >>

\* An Auction phase has ended with a plant bought.
C29_WitnessBought ==
    \E i \in DOMAIN Events :
       /\ Events[i].op = "phase_2_end"
       /\ Events[i].bought # {}

\* C30: in every reachable state each city's occupancy list has at most 3
\* entries, contains no player twice and is no longer than the current step,
\* and a player is listed in a city's occupancy exactly when that city is in
\* the player's generators; an occupancy list never loses an entry.
C30_Occupancy ==
    /\ [](\A c \in DOMAIN city_occupancy :
             LET occ == city_occupancy[c]
             IN  /\ Len(occ) <= MaxOccupancy
                 /\ \A i, j \in DOMAIN occ : i # j => occ[i] # occ[j]
                 /\ Len(occ) <= step
                 /\ Range(occ) \subseteq Players
                 /\ \A p \in Players :
                       p \in Range(occ) <=> c \in Range(generators[p]))
    /\ [][\A c \in DOMAIN city_occupancy :
             /\ Len(city_occupancy'[c]) >= Len(city_occupancy[c])
             /\ SubSeq(city_occupancy'[c], 1, Len(city_occupancy[c]))
                   = city_occupancy[c]]_vars
    /\ [][DOMAIN city_occupancy' = DOMAIN city_occupancy]_vars

\* A player has built in a city another player had built in before.
C30_Witness ==
    /\ \E c \in DOMAIN city_occupancy : Len(city_occupancy[c]) = 2
    /\ \E i \in DOMAIN Events :
          Events[i].op = "built" /\ Events[i].position = 1

\* A build in a city whose slots of the step are taken was refused.
C30_WitnessRefused ==
    \E c \in DOMAIN city_occupancy : \E i \in DOMAIN Events :
       /\ Events[i].op = "build_list"
       /\ c \in Range(Events[i].cities)
       /\ Events[i].player \notin Range(city_occupancy[c])
       /\ Len(city_occupancy[c]) = step
       /\ money[Events[i].player] >= BuildingCost(MaxOccupancy - 1) + 10

\* C31: a build request that is rejected (city full, already owned by the
\* player, unaffordable, or slot position not allowed in the current step)
\* leaves the whole game state unchanged: money, generators, city occupancy,
\* current and future plant markets, and deck.
C31_RejectedBuildNoChange ==
    [][(/\ \E i \in DOMAIN last'.ev : last'.ev[i].op = "build_list"
        /\ \A i \in DOMAIN last'.ev : last'.ev[i].op # "built")
          => /\ money' = money
             /\ generators' = generators
             /\ city_occupancy' = city_occupancy
             /\ current_market' = current_market
             /\ future_market' = future_market
             /\ deck' = deck]_vars

\* C32: in Bureaucracy, for any power plan a strategy returns, each player is
\* paid exactly PAYMENT_TABLE[k], where k is the number of cities counted as
\* powered and 0 <= k <= the player's generator count; so every player's
\* money rises by at least 10 in every Bureaucracy phase.
C32_PaidForPoweredCities ==
    \A i \in DOMAIN Events :
       Events[i].op = "powered" =>
          LET e == Events[i]
          IN  /\ e.actual >= 0
              /\ e.actual <= Len(generators[e.player])
              /\ e.payment = Payment(e.actual)
              /\ e.payment >= 10

\* C33: every player's inventory of every resource type is >= 0 in every
\* reachable state: Bureaucracy never consumes more units of a type than the
\* player holds, also when several of the player's plants burn the same type,
\* and a player is never paid for a plant whose resource cost was not covered
\* by the inventory.
C33_InventoryNeverNegative ==
    \A p \in Players : \A rt \in ResourceTypes : inventory[p][rt] >= 0

\* C34: in Step 1 or 2, after Bureaucracy the plant that was the most
\* expensive in the future market is at the bottom of the deck and is no
\* longer in the future market, for any deck contents including an empty
\* deck.
C34_LargestToDeckBottom ==
    [][(last'.op = "round_end" /\ step \in {1, 2} /\ future_market # << >>) =>
          LET after == rotate_market(S)
              largest == MaxCost(future_market)
          IN  /\ after.deck # << >>
              /\ after.deck[Len(after.deck)] = largest
              /\ largest \notin Range(after.future_market)]_vars

\* A phase has just ended: the state is the one the next phase starts in.
AtPhaseBoundary ==
    \E i \in DOMAIN Events :
       Events[i].op \in {"phase_2_end", "phase_3_end", "phase_4_end",
                         "phase_5_end"}

\* C35: in Steps 1 and 2, at every phase boundary the current market is
\* sorted by ascending cost and every plant in the current market costs no
\* more than every plant in the future market.
C35_MarketsOrdered ==
    (step \in {1, 2} /\ AtPhaseBoundary) =>
        /\ \A i, j \in DOMAIN current_market :
              i < j => current_market[i] <= current_market[j]
        /\ \A c \in Range(current_market) : \A f \in Range(future_market) :
              c <= f

\* The cards in the deck, the markets and the hands, one entry per card held.
RECURSIVE Flatten(_)
Flatten(seqs) ==
    IF seqs = << >> THEN << >> ELSE Head(seqs) \o Flatten(Tail(seqs))

CardPlaces(dk, cm, fm, hands) ==
    SelectSeq(dk \o cm \o fm \o Flatten([i \in 1..NumPlayers |-> hands[i - 1]]),
              LAMBDA c : c # StageThree)

\* C36: in every reachable state each plant card is in at most one place among
\* the deck, the current market, the future market and the players' hands, no
\* place holds the same card twice, and no operation increases the total
\* number of cards in those places.
C36_CardsInOnePlace ==
    /\ [](LET places == CardPlaces(deck, current_market, future_market, cards)
          IN  \A i, j \in DOMAIN places : i # j => places[i] # places[j])
    /\ [][Len(CardPlaces(deck', current_market', future_market', cards'))
             <= Len(CardPlaces(deck, current_market, future_market, cards))]_vars
    /\ [][Range(CardPlaces(deck', current_market', future_market', cards'))
             \subseteq
          Range(CardPlaces(deck, current_market, future_market, cards))]_vars

\* A round has been played to its end: plants were bought, drawn into the
\* markets and moved to the bottom of the deck.
C36_Witness ==
    /\ \E p \in Players : cards[p] # << >>
    /\ \E i \in DOMAIN Events : Events[i].op = "phase_5_end"
    /\ Len(CardPlaces(deck, current_market, future_market, cards))
          < Len(AllCards)

\* C37: for every resource pool built by the repository's own setup (coal 27
\* with start bins 2-9, gas 24 with 3-8, oil 20 with 3-9, uranium 12 with
\* 8-9), total_supply (the off-board reserve) is >= 0 after initialize_supply
\* and in every later state, and the number of occupied slots never exceeds
\* the ladder's slot count.
C37_ReserveNeverNegative ==
    \A rt \in ResourceTypes :
       /\ resources[rt].total_supply >= 0
       /\ Cardinality(OccupiedCells(resources[rt].capacity_list))
             <= SeqSum(SetupBinSizes)

(***************************************************************************)
(* The Auction phase of players who hold three plants and resources         *)
(* (game_engine.py lines 240-422, 818-874)                                  *)
(***************************************************************************)

\* The hands of the phase: an oil plant, an oil&gas plant and the uranium
\* plant 11 for player 0, three plants of one fuel each for the others.
StockedHand(p) ==
    IF p = 0 THEN << 3, 5, 11 >> ELSE << 3 + 3 * p, 4 + 3 * p, 5 + 3 * p >>

\* The most validate_resource_purchase lets a player with the hand hold of
\* every resource type.
FullStock(hand) == [rt \in ResourceTypes |-> StorageFor(hand, rt)]

\* A later round's Auction phase: every player holds three plants and either
\* nothing or all the resources the Buy Resources phase sells for the hand.
InitDiscard ==
    \E order \in Orders(NumPlayers) : \E full \in BOOLEAN :
       LET hands == [p \in Players |-> StockedHand(p)]
           g == Scenario(hands, [p \in Players |-> StartMoney], LaterRound,
                         order)
       IN  Is(begin_phase_2(
                [g EXCEPT !.inventory =
                    [p \in Players |->
                        IF full THEN FullStock(hands[p]) ELSE @[p]]]))

SpecDiscard == InitDiscard /\ [][NextAuction]_vars

\* C38: after a forced discard the buyer holds, of each resource type, the
\* smaller of the amount held before and the capacity of the remaining plants,
\* the capacity validate_resource_purchase uses (twice the resource_cost of
\* every plant that burns the type, hybrid plants included): nothing the
\* player could still buy is lost.
C38_KeepsWhatFits ==
    \A i \in DOMAIN Events :
        LET e == Events[i] IN
        (e.op = "purchase" /\ Len(e.before.cards[e.winner]) = 3) =>
            \A rt \in ResourceTypes :
               LET held == e.before.inventory[e.winner][rt]
                   room == StorageFor(e.after.cards[e.winner], rt)
               IN  e.after.inventory[e.winner][rt]
                      = (IF held < room THEN held ELSE room)

\* The players still to be asked in the phase are the last ones of the
\* sequence, in its order, and there is one at least.
RestOf(seq) ==
    /\ frame.order # << >>
    /\ Len(frame.order) <= Len(seq)
    /\ frame.order = SubSeq(seq, Len(seq) - Len(frame.order) + 1, Len(seq))

\* The players whose answers the engine took during the step just made.
AskedInStep(ev) ==
    { ev[i].player : i \in { j \in DOMAIN ev :
                               ev[j].op \in {"order", "build_list", "powered"} } }

\* One step of a phase that asks the players in turn: the answer taken is
\* the one of the first player still to be asked, the others follow, and a
\* phase is left after its last player only.
AsksInTurn ==
    pc \in {"buy_resources", "build", "bureaucracy"} =>
        /\ AskedInStep(last'.ev) \subseteq {Head(frame.order)}
        /\ (pc' = pc) => /\ frame'.order = Tail(frame.order)
                          /\ AskedInStep(last'.ev) = {Head(frame.order)}
                          /\ player_order' = player_order
        /\ (pc' \in {"buy_resources", "build", "bureaucracy"} /\ pc' # pc)
              => (Len(frame.order) = 1 /\ Len(frame'.order) = NumPlayers)

\* C39: in Buy Resources and in Build the players are asked one at a time in
\* the reverse of the turn order of Determine Order, in Bureaucracy in the
\* order of their indices; each answer is applied before the next player is
\* asked, and the next player of the phase is the next one of that order.
C39_ProcessingOrder ==
    /\ [](pc \in {"buy_resources", "build"} => RestOf(Reverse(player_order)))
    /\ [](pc = "bureaucracy" => RestOf([i \in 1..NumPlayers |-> i - 1]))
    /\ [][AsksInTurn]_vars

\* In the second round the turn order is not the order of the indices; the
\* last player of the turn order has bought resources and built, and the
\* engine waits for the first player's build list.
C39_Witness ==
    /\ pc = "build"
    /\ round_num = 2
    /\ player_order # [i \in 1..NumPlayers |-> i - 1]
    /\ frame.order = << player_order[1] >>
    /\ \E i \in DOMAIN Events :
          /\ Events[i].op = "build_list"
          /\ Events[i].player = player_order[NumPlayers]
          /\ Events[i].cities # << >>

(***************************************************************************)
(* run_game to its return when every strategy call returns                  *)
(* (game_engine.py lines 125-226)                                           *)
(***************************************************************************)

\* Every strategy call returns: weak fairness of the engine's step,
\* WF_vars(Next), written with what ENABLED <<Next>>_vars is.  The engine
\* waits for an answer in every state but the ones after run_game's return or
\* raise, and every answer changes the state.
GameAnswersArrive ==
    \/ []<>(pc \in {"done", "fatal"})
    \/ []<><<Next>>_vars

FairSpecLate == InitLate /\ [][Next]_vars /\ GameAnswersArrive

\* C40: run_game returns unless an error is raised.  It returns after a Build
\* phase that left a player with 18 cities or more, or at the head of the
\* round after round max_rounds; no round after round max_rounds is played,
\* and the winner returned is the index of a player.
C40_GameEnds ==
    /\ <>(pc \in {"done", "fatal"})
    /\ [](round_num <= MaxRounds + 1)
    /\ [](pc # "done" => round_num <= MaxRounds)
    /\ [](\A i \in DOMAIN Events :
             /\ Events[i].op = "round" => Events[i].round_num <= MaxRounds
             /\ Events[i].op = "game_over" =>
                   /\ pc = "done"
                   /\ game_over
                   /\ Events[i].winner_idx \in Players
                   /\ i = Len(Events)
                   /\ \/ round_num = MaxRounds + 1
                      \/ /\ i > 1
                         /\ Events[i - 1].op = "phase_4_end"
                         /\ \E p \in Players :
                               Len(generators[p]) >= EndGameCities)
    /\ [](pc = "done" => \E i \in DOMAIN Events : Events[i].op = "game_over")

\* The game has returned after its last round, the winner a player who bought
\* a plant and resources and built in that round.
C40_Witness ==
    /\ pc = "done"
    /\ round_num = MaxRounds + 1
    /\ \A p \in Players : Len(generators[p]) < EndGameCities
    /\ \E i \in DOMAIN Events :
          /\ Events[i].op = "game_over"
          /\ Events[i].winner_idx = NumPlayers - 1
          /\ cards[NumPlayers - 1] # << >>

\* The game has returned after a Build phase, in a round up to max_rounds.
C40_WitnessCities ==
    /\ pc = "done"
    /\ round_num <= MaxRounds
    /\ \E i \in DOMAIN Events : Events[i].op = "game_over"

====
